---- MODULE Spec2Model ----
(***************************************************************************)
(* FlowPulse scheduler: the job registry (cron entries and interval jobs), *)
(* the interval tasks and their tickers, and executeAPI's retry loop, as   *)
(* implemented in pkg/scheduler (src/unnamed/part_002).                    *)
(***************************************************************************)
EXTENDS Integers, Sequences, FiniteSets, TLC

\* ------------------------------------------------------------------ bounds
\* largest schedule.RetryCount drawn for a schedule
MaxRetry == 2
\* cron entries plus interval jobs ever created
MaxJobs == 2
\* executions (calls of executeAPI) ever started
MaxExecs == 1
\* management calls ever issued by the callers
MaxCalls == 2

\* ------------------------------------------------------- values and inputs
Callers == {"c1", "c2"}
NoCaller == "none"

SchedIds == {1, 2}
ApiIds == {1, 2}

\* the handles the bounds leave room for
JobIds == 1..MaxJobs
EntryIds == 1..MaxJobs
ExecIds == 1..MaxExecs

\* Schedule.Expression as a sequence of characters
ExprFive == <<"5">>
ExprZero == <<"0">>
ExprNeg == <<"-", "3">>
ExprWord == <<"a">>
ExprStars == <<"*", " ", "*", " ", "*", " ", "*", " ", "*", " ", "*">>
ExprFiveStars == <<"*", " ", "*", " ", "*", " ", "*", " ", "*">>

Digits == {"0", "1", "2", "3", "4", "5", "6", "7", "8", "9"}

DigitVal(c) ==
    CASE c = "0" -> 0 [] c = "1" -> 1 [] c = "2" -> 2 [] c = "3" -> 3
      [] c = "4" -> 4 [] c = "5" -> 5 [] c = "6" -> 6 [] c = "7" -> 7
      [] c = "8" -> 8 [] c = "9" -> 9

RECURSIVE DecVal(_)
DecVal(s) == IF s = <<>> THEN 0 ELSE 10 * DecVal(SubSeq(s, 1, Len(s) - 1)) + DigitVal(s[Len(s)])

\* strconv.Atoi: an optional sign, then one or more decimal digits
Atoi(s) ==
    LET signed == s # <<>> /\ s[1] \in {"-", "+"}
        body == IF signed THEN Tail(s) ELSE s
    IN  IF body = <<>> \/ \E i \in 1..Len(body) : body[i] \notin Digits
        THEN [ok |-> FALSE, val |-> 0]
        ELSE [ok |-> TRUE, val |-> IF signed /\ s[1] = "-" THEN 0 - DecVal(body) ELSE DecVal(body)]

RECURSIVE Fields(_)
\* strings.Fields: the number of space separated fields of s
Fields(s) ==
    IF s = <<>> THEN 0
    ELSE IF s[1] = " " THEN Fields(Tail(s))
    ELSE IF Len(s) = 1 \/ s[2] = " " THEN 1 + Fields(Tail(s))
    ELSE Fields(Tail(s))

\* cron.New(cron.WithSeconds()): the parser wants six fields; of the field
\* grammar only "*" and decimal digits are drawn here
CronParses(s) ==
    /\ Fields(s) = 6
    /\ \A i \in 1..Len(s) : s[i] \in Digits \cup {"*", " "}

\* the one fallback delay (seconds) the drawn schedules carry
DelaySeconds == {2}

Schedule(id, apiId, type, expr, retry) ==
    [ID |-> id, APIID |-> apiId, Type |-> type, Expression |-> expr, IsActive |-> TRUE,
     RetryCount |-> retry, FallbackDelay |-> CHOOSE d \in DelaySeconds : TRUE]

\* models.Schedule{}: the zero value
ZeroSchedule == [ID |-> 0, APIID |-> 0, Type |-> "", Expression |-> <<>>, IsActive |-> FALSE,
                 RetryCount |-> 0, FallbackDelay |-> 0]

\* the schedules handed to ScheduleJob: well-formed ones with every retry
\* count, and one of each malformed shape
ScheduleInputs ==
    {Schedule(id, 1, t, IF t = "cron" THEN ExprStars ELSE ExprFive, r) :
        id \in SchedIds, t \in {"cron", "interval"}, r \in 0..MaxRetry}
    \cup {Schedule(1, 1, "cron", ExprFiveStars, 0),
          Schedule(1, 1, "interval", ExprWord, 0),
          Schedule(1, 1, "interval", ExprZero, 0),
          Schedule(1, 1, "interval", ExprNeg, 0),
          Schedule(1, 1, "once", ExprFive, 0),
          Schedule(1, 2, "cron", ExprStars, 0),
          Schedule(1, 2, "interval", ExprFive, 0)}

Api(id, method, url, headers) ==
    [ID |-> id, Method |-> method, URL |-> url, Headers |-> headers, Body |-> ""]

\* models.API{}: the zero value
ZeroApi == [ID |-> 0, Method |-> "", URL |-> "", Headers |-> "", Body |-> ""]

\* the API rows the store may hold for id 1
ApiValues ==
    {Api(1, "GET", "http://x/ok", "{}"),
     Api(1, "GET", "http://x/ok", "{bad"),
     Api(1, "B D", "http://x/ok", ""),
     Api(1, "GET", ":bad", "")}

\* net/http validMethod: empty means GET, otherwise a token
ValidMethod(m) == m \in {"", "GET", "POST", "PUT", "DELETE"}
\* net/url Parse of the drawn URLs
UrlParses(u) == u \in {"http://x/ok"}
\* json.Unmarshal into map[string]string of the drawn header texts
JsonUnmarshalOK(h) == h \in {"{}", "null", "{\"k\":\"v\"}"}

DigitChar(d) ==
    CASE d = 0 -> "0" [] d = 1 -> "1" [] d = 2 -> "2" [] d = 3 -> "3"
      [] d = 4 -> "4" [] d = 5 -> "5" [] d = 6 -> "6" [] d = 7 -> "7"
      [] d = 8 -> "8" [] d = 9 -> "9"

RECURSIVE Itoa(_)
\* fmt's %d of a status code
Itoa(n) == IF n < 10 THEN DigitChar(n) ELSE Itoa(n \div 10) \o DigitChar(n % 10)

\* what client.Do gives for one attempt: a response or a transport error
Outcomes ==
    {[err |-> "", status |-> 200, body |-> "ok"],
     [err |-> "", status |-> 300, body |-> "moved"],
     [err |-> "", status |-> 500, body |-> "oops"],
     [err |-> "connection refused", status |-> 0, body |-> ""]}

\* the attempt outcome is a response with a 2xx status
Is2xx(o) == o.err = "" /\ o.status >= 200 /\ o.status < 300

\* the inputs of the two concurrent callers
RegistryInputs ==
    {Schedule(1, 1, t, IF t = "cron" THEN ExprStars ELSE ExprFive, 1) : t \in {"cron", "interval"}}
    \cup {Schedule(1, 1, "interval", ExprWord, 0), Schedule(1, 1, "once", ExprFive, 0)}

RegistryOutcomes == {o \in Outcomes : o.status = 500}

\* the schedules tables the process may find in the store
Tables ==
    {<<>>,
     <<Schedule(2, 1, "interval", ExprFive, 0)>>,
     <<Schedule(1, 1, "interval", ExprWord, 0), Schedule(2, 1, "cron", ExprStars, 1)>>,
     <<Schedule(1, 2, "cron", ExprStars, 0), Schedule(2, 1, "interval", ExprFive, 0)>>,
     <<Schedule(1, 1, "interval", ExprZero, 0), Schedule(2, 1, "cron", ExprStars, 0)>>}

\* the store as the process finds it: the row of API 1 (API 2 has no row)
\* and the schedules table
Stores == {[api |-> a, schedules |-> t] : a \in ApiValues, t \in Tables}

RegistryStores == {st \in Stores : st.api.Headers = "{}" /\ Len(st.schedules) = 1}

\* ------------------------------------------------------------------- state
VARIABLES
    dbApis,         \* store: apis rows, by id
    dbSchedules,    \* store: schedules rows
    dbSeq,          \* store: the last id AUTOINCREMENT gave to a schedules row
    logs,           \* store: execution_logs rows, in insertion order
    jobEntries,     \* SchedulerService.jobEntries: schedule id -> cron.EntryID
    intervalJobs,   \* SchedulerService.intervalJobs: schedule id -> *IntervalJob
    cronMutex,      \* holder of SchedulerService.cronMutex
    intervalMutex,  \* holder of SchedulerService.intervalMutex
    cron,           \* the cron driver: running, nextID, entries
    jobs,           \* the IntervalJob objects ever allocated
    tasks,          \* the runIntervalJob goroutines
    execs,          \* the activations of executeAPI
    started,        \* executions started so far
    calls,          \* the callers: operation, position, locals, last result
    issued,         \* management calls issued so far
    panicked,       \* an unrecovered panic has ended the process
    stopped         \* history: the jobs whose StopJob or StopAllJobs iteration is over

vars == <<dbApis, dbSchedules, dbSeq, logs, jobEntries, intervalJobs, cronMutex, intervalMutex,
          cron, jobs, tasks, execs, started, calls, issued, panicked, stopped>>

EmptyMap == [k \in {} |-> 0]
MapPut(m, k, v) == [x \in DOMAIN m \cup {k} |-> IF x = k THEN v ELSE m[x]]
MapDel(m, k) == [x \in DOMAIN m \ {k} |-> m[x]]

\* App (app.go) outside any of its methods
NoApp == [op |-> "", pc |-> "", schedule |-> ZeroSchedule, wasActive |-> FALSE, did |-> <<>>,
          ret |-> ""]

IdleCall == [pc |-> "idle", op |-> "", schedule |-> ZeroSchedule, id |-> 0, api |-> ZeroApi,
             handle |-> 0, queue |-> <<>>, ret |-> "", app |-> NoApp]

\* the largest id among the rows, 0 for none
LastId(rows) ==
    IF rows = <<>> THEN 0
    ELSE CHOOSE m \in {rows[i].ID : i \in 1..Len(rows)} : \A i \in 1..Len(rows) : rows[i].ID <= m

\* NewSchedulerService, over the store found on disk
Init(stores) ==
    /\ \E st \in stores :
          /\ dbApis = [k \in {1} |-> st.api]
          /\ dbSchedules = st.schedules
          /\ dbSeq = LastId(st.schedules)
    /\ logs = <<>>
    /\ jobEntries = EmptyMap
    /\ intervalJobs = EmptyMap
    /\ cronMutex = NoCaller
    /\ intervalMutex = NoCaller
    /\ cron = [running |-> TRUE, nextID |-> 0, entries |-> EmptyMap]
    /\ jobs = EmptyMap
    /\ tasks = EmptyMap
    /\ execs = EmptyMap
    /\ started = 0
    /\ calls = [p \in Callers |-> IdleCall]
    /\ issued = 0
    /\ panicked = FALSE
    /\ stopped = {}

\* ------------------------------------------------------- management calls
\* cron entries and interval jobs created so far
Created == cron.nextID + Cardinality(DOMAIN jobs)

SetCall(p, c) == calls' = [calls EXCEPT ![p] = c]

\* the caller's record once the call has returned ret
Returned(c, ret) == [IdleCall EXCEPT !.ret = ret, !.app = c.app]

\* ScheduleJob has returned err: to its caller, or to the loop of
\* StartAllJobs, which logs an error and goes on to the next schedule
AfterScheduleJob(c, err) ==
    IF c.op = "StartAllJobs"
    THEN IF c.queue = <<>>
         THEN Returned(c, "nil")
         ELSE [c EXCEPT !.pc = "sj_check", !.schedule = Head(c.queue), !.id = Head(c.queue).ID,
                        !.queue = Tail(c.queue), !.api = ZeroApi, !.handle = 0]
    ELSE Returned(c, err)

\* the callers are interchangeable: the second one is the one whose call
\* begins while the first one's call is under way
Overlaps(p) == p = "c1" \/ calls["c1"].pc # "idle"

\* a caller enters ScheduleJob(s)
CallScheduleJob(p, s) ==
    /\ calls[p].pc = "idle"
    /\ Overlaps(p)
    /\ issued < MaxCalls
    /\ issued' = issued + 1
    /\ SetCall(p, [IdleCall EXCEPT !.pc = "sj_check", !.op = "ScheduleJob", !.schedule = s,
                                   !.id = s.ID])
    /\ UNCHANGED <<stopped, dbSeq, dbApis, dbSchedules, logs, jobEntries, intervalJobs, cronMutex,
                   intervalMutex, cron, jobs, tasks, execs, started, panicked>>
\* ScheduleJob without its "already scheduled" check: every call goes on to
\* create a job
ScheduleJobCheckBlind(p) ==
    LET c == calls[p]
        isCron == c.schedule.Type = "cron"
    IN  /\ c.pc = "sj_check"
        /\ IF isCron THEN cronMutex = NoCaller ELSE intervalMutex = NoCaller
        /\ SetCall(p, [c EXCEPT !.pc = "sj_getapi"])
        /\ UNCHANGED <<stopped, dbSeq, dbApis, dbSchedules, logs, jobEntries, intervalJobs, cronMutex,
                       intervalMutex, cron, jobs, tasks, execs, started, issued, panicked>>

\* a check that does not unlock intervalMutex when the id is not there
ScheduleJobCheckKeepsLock(p) ==
    LET c == calls[p]
        isCron == c.schedule.Type = "cron"
        exists == IF isCron THEN c.schedule.ID \in DOMAIN jobEntries
                            ELSE c.schedule.ID \in DOMAIN intervalJobs
    IN  /\ c.pc = "sj_check"
        /\ IF isCron THEN cronMutex = NoCaller ELSE intervalMutex = NoCaller
        /\ intervalMutex' = IF isCron \/ exists THEN intervalMutex ELSE p
        /\ SetCall(p, IF exists THEN AfterScheduleJob(c, "nil") ELSE [c EXCEPT !.pc = "sj_getapi"])
        /\ UNCHANGED <<stopped, dbSeq, dbApis, dbSchedules, logs, jobEntries, intervalJobs, cronMutex,
                       cron, jobs, tasks, execs, started, issued, panicked>>

\* ScheduleJob, "Check if the job is already scheduled": lock, look up, unlock
ScheduleJobCheck(p) ==
    LET c == calls[p]
        isCron == c.schedule.Type = "cron"
        exists == IF isCron THEN c.schedule.ID \in DOMAIN jobEntries
                            ELSE c.schedule.ID \in DOMAIN intervalJobs
    IN  /\ c.pc = "sj_check"
        /\ IF isCron THEN cronMutex = NoCaller ELSE intervalMutex = NoCaller
        /\ SetCall(p, IF exists THEN AfterScheduleJob(c, "nil") ELSE [c EXCEPT !.pc = "sj_getapi"])
        /\ UNCHANGED <<stopped, dbSeq, dbApis, dbSchedules, logs, jobEntries, intervalJobs, cronMutex,
                       intervalMutex, cron, jobs, tasks, execs, started, issued, panicked>>

\* ScheduleJob, s.db.GetAPIByID(schedule.APIID)
ScheduleJobGetAPI(p) ==
    LET c == calls[p]
    IN  /\ c.pc = "sj_getapi"
        /\ SetCall(p, IF c.schedule.APIID \in DOMAIN dbApis
                      THEN [c EXCEPT !.pc = "sj_create", !.api = dbApis[c.schedule.APIID]]
                      ELSE AfterScheduleJob(c, "failed to get API"))
        /\ UNCHANGED <<stopped, dbSeq, dbApis, dbSchedules, logs, jobEntries, intervalJobs, cronMutex,
                       intervalMutex, cron, jobs, tasks, execs, started, issued, panicked>>

\* an AddFunc that installs the entry before it reports the expression
ScheduleJobAddFuncEager(p) ==
    LET c == calls[p]
        id == cron.nextID + 1
    IN  /\ c.pc = "sj_create"
        /\ c.schedule.Type = "cron"
        /\ Created < MaxJobs
        /\ cron' = [cron EXCEPT !.nextID = id,
                                !.entries = MapPut(@, id, [api |-> c.api,
                                                           schedule |-> c.schedule])]
        /\ SetCall(p, IF CronParses(c.schedule.Expression)
                      THEN [c EXCEPT !.pc = "sj_insert", !.handle = id]
                      ELSE AfterScheduleJob(c, "failed to add cron job"))
        /\ UNCHANGED <<stopped, dbSeq, dbApis, dbSchedules, logs, jobEntries, intervalJobs, cronMutex,
                       intervalMutex, jobs, tasks, execs, started, issued, panicked>>

\* ScheduleJob, cron branch: s.cron.AddFunc(schedule.Expression, closure)
ScheduleJobAddFunc(p) ==
    LET c == calls[p]
        id == cron.nextID + 1
    IN  /\ c.pc = "sj_create"
        /\ c.schedule.Type = "cron"
        /\ IF CronParses(c.schedule.Expression)
           THEN /\ Created < MaxJobs
                /\ cron' = [cron EXCEPT !.nextID = id,
                                        !.entries = MapPut(@, id, [api |-> c.api,
                                                                   schedule |-> c.schedule])]
                /\ SetCall(p, [c EXCEPT !.pc = "sj_insert", !.handle = id])
           ELSE /\ SetCall(p, AfterScheduleJob(c, "failed to add cron job"))
                /\ UNCHANGED cron
        /\ UNCHANGED <<stopped, dbSeq, dbApis, dbSchedules, logs, jobEntries, intervalJobs, cronMutex,
                       intervalMutex, jobs, tasks, execs, started, issued, panicked>>

\* an unrecovered panic: the process exits, and with it every goroutine, the
\* registry and the cron driver; the store stays
Panic ==
    /\ panicked' = TRUE
    /\ calls' = [q \in DOMAIN calls |-> [IdleCall EXCEPT !.pc = "exited"]]
    /\ jobEntries' = EmptyMap
    /\ intervalJobs' = EmptyMap
    /\ cronMutex' = NoCaller
    /\ intervalMutex' = NoCaller
    /\ cron' = [cron EXCEPT !.running = FALSE, !.entries = EmptyMap]
    /\ jobs' = EmptyMap
    /\ tasks' = EmptyMap
    /\ execs' = EmptyMap

\* ScheduleJob, interval branch up to the IntervalJob literal: strconv.Atoi,
\* then time.NewTicker, which panics on a non-positive duration
ScheduleJobNewTicker(p) ==
    LET c == calls[p]
        n == Atoi(c.schedule.Expression)
        j == Cardinality(DOMAIN jobs) + 1
    IN  /\ c.pc = "sj_create"
        /\ c.schedule.Type = "interval"
        /\ IF ~n.ok
           THEN /\ SetCall(p, AfterScheduleJob(c, "invalid interval"))
                /\ UNCHANGED <<jobEntries, intervalJobs, cronMutex, intervalMutex, cron,
                               jobs, tasks, execs, panicked>>
           ELSE IF n.val <= 0
           THEN Panic
           ELSE /\ Created < MaxJobs
                /\ jobs' = MapPut(jobs, j, [scheduleID |-> c.schedule.ID,
                                            apiID |-> c.schedule.APIID,
                                            interval |-> n.val,
                                            ticker |-> [active |-> TRUE, C |-> FALSE],
                                            isRunning |-> TRUE])
                /\ SetCall(p, [c EXCEPT !.pc = "sj_insert", !.handle = j])
                /\ UNCHANGED <<jobEntries, intervalJobs, cronMutex, intervalMutex, cron,
                               tasks, execs, panicked>>
        /\ UNCHANGED <<stopped, dbSeq, dbApis, dbSchedules, logs, started, issued>>

\* ScheduleJob, the final else: neither "cron" nor "interval"
ScheduleJobUnsupported(p) ==
    LET c == calls[p]
    IN  /\ c.pc = "sj_create"
        /\ c.schedule.Type \notin {"cron", "interval"}
        /\ SetCall(p, AfterScheduleJob(c, "unsupported schedule type"))
        /\ UNCHANGED <<stopped, dbSeq, dbApis, dbSchedules, logs, jobEntries, intervalJobs, cronMutex,
                       intervalMutex, cron, jobs, tasks, execs, started, issued, panicked>>

\* ScheduleJob: lock, store the handle in the mapping of the kind, unlock
ScheduleJobInsert(p) ==
    LET c == calls[p]
    IN  /\ c.pc = "sj_insert"
        /\ IF c.schedule.Type = "cron"
           THEN /\ cronMutex = NoCaller
                /\ jobEntries' = MapPut(jobEntries, c.schedule.ID, c.handle)
                /\ SetCall(p, AfterScheduleJob(c, "nil"))
                /\ UNCHANGED intervalJobs
           ELSE /\ intervalMutex = NoCaller
                /\ intervalJobs' = MapPut(intervalJobs, c.schedule.ID, c.handle)
                /\ SetCall(p, [c EXCEPT !.pc = "sj_go"])
                /\ UNCHANGED jobEntries
        /\ UNCHANGED <<stopped, dbSeq, dbApis, dbSchedules, logs, cronMutex, intervalMutex, cron, jobs,
                       tasks, execs, started, issued, panicked>>

\* ScheduleJob: go s.runIntervalJob(job, api, schedule), return nil
ScheduleJobGo(p) ==
    LET c == calls[p]
    IN  /\ c.pc = "sj_go"
        /\ tasks' = MapPut(tasks, c.handle, [pc |-> "select", api |-> c.api,
                                             schedule |-> c.schedule])
        /\ SetCall(p, AfterScheduleJob(c, "nil"))
        /\ UNCHANGED <<stopped, dbSeq, dbApis, dbSchedules, logs, jobEntries, intervalJobs, cronMutex,
                       intervalMutex, cron, jobs, execs, started, issued, panicked>>

\* a caller enters StopJob(id)
CallStopJob(p, id) ==
    /\ calls[p].pc = "idle"
    /\ Overlaps(p)
    /\ issued < MaxCalls
    /\ issued' = issued + 1
    /\ SetCall(p, [IdleCall EXCEPT !.pc = "st_cron", !.op = "StopJob", !.id = id])
    /\ UNCHANGED <<stopped, dbSeq, dbApis, dbSchedules, logs, jobEntries, intervalJobs, cronMutex,
                   intervalMutex, cron, jobs, tasks, execs, started, panicked>>

\* StopJob whose cron.Remove also ends the entry's running executions
StopJobCronCancelling(p) ==
    LET c == calls[p]
    IN  /\ c.pc = "st_cron"
        /\ cronMutex = NoCaller
        /\ IF c.id \in DOMAIN jobEntries
           THEN /\ cron' = [cron EXCEPT !.entries = MapDel(@, jobEntries[c.id])]
                /\ jobEntries' = MapDel(jobEntries, c.id)
                /\ stopped' = stopped \cup {[kind |-> "cron", id |-> jobEntries[c.id]]}
                /\ execs' = [x \in {y \in DOMAIN execs :
                                       execs[y].owner # [kind |-> "cron", id |-> jobEntries[c.id]]}
                                |-> execs[x]]
                /\ SetCall(p, Returned(c, "nil"))
           ELSE /\ SetCall(p, [c EXCEPT !.pc = "st_lock"])
                /\ UNCHANGED <<cron, jobEntries, stopped, execs>>
        /\ UNCHANGED <<dbSeq, dbApis, dbSchedules, logs, intervalJobs, cronMutex, intervalMutex,
                       jobs, tasks, started, issued, panicked>>

\* StopJob, "Try to stop cron job": under cronMutex, cron.Remove and delete
StopJobCron(p) ==
    LET c == calls[p]
    IN  /\ c.pc = "st_cron"
        /\ cronMutex = NoCaller
        /\ IF c.id \in DOMAIN jobEntries
           THEN /\ cron' = [cron EXCEPT !.entries = MapDel(@, jobEntries[c.id])]
                /\ jobEntries' = MapDel(jobEntries, c.id)
                /\ stopped' = stopped \cup {[kind |-> "cron", id |-> jobEntries[c.id]]}
                /\ SetCall(p, Returned(c, "nil"))
           ELSE /\ SetCall(p, [c EXCEPT !.pc = "st_lock"])
                /\ UNCHANGED <<cron, jobEntries, stopped>>
        /\ UNCHANGED <<dbSeq, dbApis, dbSchedules, logs, intervalJobs, cronMutex, intervalMutex,
                       jobs, tasks, execs, started, issued, panicked>>
\* StopJob that reports success for an id it does not find
StopJobLockQuiet(p) ==
    LET c == calls[p]
    IN  /\ c.pc = "st_lock"
        /\ intervalMutex = NoCaller
        /\ IF c.id \in DOMAIN intervalJobs
           THEN /\ intervalMutex' = p
                /\ SetCall(p, [c EXCEPT !.pc = "st_send", !.handle = intervalJobs[c.id]])
           ELSE /\ SetCall(p, Returned(c, "nil"))
                /\ UNCHANGED intervalMutex
        /\ UNCHANGED <<stopped, dbSeq, dbApis, dbSchedules, logs, jobEntries, intervalJobs, cronMutex,
                       cron, jobs, tasks, execs, started, issued, panicked>>

\* StopJob, "Try to stop interval job": take intervalMutex and look up; an
\* absent id unlocks and returns the error
StopJobLock(p) ==
    LET c == calls[p]
    IN  /\ c.pc = "st_lock"
        /\ intervalMutex = NoCaller
        /\ IF c.id \in DOMAIN intervalJobs
           THEN /\ intervalMutex' = p
                /\ SetCall(p, [c EXCEPT !.pc = "st_send", !.handle = intervalJobs[c.id]])
           ELSE /\ SetCall(p, Returned(c, "job not found"))
                /\ UNCHANGED intervalMutex
        /\ UNCHANGED <<stopped, dbSeq, dbApis, dbSchedules, logs, jobEntries, intervalJobs, cronMutex,
                       cron, jobs, tasks, execs, started, issued, panicked>>

\* the task of job j stands in its select and can take a value from job.done
Receiving(j) == j \in DOMAIN tasks /\ tasks[j].pc = "select"
\* a task whose case <-job.done leaves the select but not the for loop
TaskDoneBreak(j) == tasks

\* job.done <- true met by the task's case <-job.done: return
TaskDone(j) == [tasks EXCEPT ![j].pc = "returned"]

\* job.ticker.Stop()
TickerStop(j) == [jobs EXCEPT ![j].ticker.active = FALSE]

\* StopJob holding intervalMutex: job.done <- true (unbuffered: waits for the
\* task's select), job.ticker.Stop(), delete, unlock, return nil
StopJobSend(p) ==
    LET c == calls[p]
    IN  /\ c.pc = "st_send"
        /\ Receiving(c.handle)
        /\ tasks' = TaskDone(c.handle)
        /\ jobs' = TickerStop(c.handle)
        /\ intervalJobs' = MapDel(intervalJobs, c.id)
        /\ intervalMutex' = NoCaller
        /\ stopped' = stopped \cup {[kind |-> "interval", id |-> c.handle]}
        /\ SetCall(p, Returned(c, "nil"))
        /\ UNCHANGED <<dbSeq, dbApis, dbSchedules, logs, jobEntries, cronMutex, cron, execs,
                       started, issued, panicked>>

\* a caller enters StopAllJobs, directly or through Shutdown
CallStopAllJobs(p) ==
    /\ calls[p].pc = "idle"
    /\ Overlaps(p)
    /\ issued < MaxCalls
    /\ issued' = issued + 1
    /\ SetCall(p, [IdleCall EXCEPT !.pc = "sa_cron", !.op = "StopAllJobs"])
    /\ UNCHANGED <<stopped, dbSeq, dbApis, dbSchedules, logs, jobEntries, intervalJobs, cronMutex,
                   intervalMutex, cron, jobs, tasks, execs, started, panicked>>

\* StopAllJobs, "Stop cron jobs": under cronMutex, Remove and delete each
StopAllJobsCron(p) ==
    LET c == calls[p]
        gone == {jobEntries[k] : k \in DOMAIN jobEntries}
    IN  /\ c.pc = "sa_cron"
        /\ cronMutex = NoCaller
        /\ cron' = [cron EXCEPT !.entries = [e \in DOMAIN @ \ gone |-> @[e]]]
        /\ jobEntries' = EmptyMap
        /\ stopped' = stopped \cup {[kind |-> "cron", id |-> en] : en \in gone}
        /\ SetCall(p, [c EXCEPT !.pc = "sa_lock"])
        /\ UNCHANGED <<dbSeq, dbApis, dbSchedules, logs, intervalJobs, cronMutex, intervalMutex,
                       jobs, tasks, execs, started, issued, panicked>>

\* StopAllJobs, "Stop interval jobs": take intervalMutex
StopAllJobsLock(p) ==
    LET c == calls[p]
    IN  /\ c.pc = "sa_lock"
        /\ intervalMutex = NoCaller
        /\ intervalMutex' = p
        /\ SetCall(p, [c EXCEPT !.pc = "sa_range"])
        /\ UNCHANGED <<stopped, dbSeq, dbApis, dbSchedules, logs, jobEntries, intervalJobs, cronMutex,
                       cron, jobs, tasks, execs, started, issued, panicked>>

\* StopAllJobs, the range over intervalJobs: the next key in map order (any),
\* or the end of the loop and the unlock
StopAllJobsRange(p) ==
    LET c == calls[p]
    IN  /\ c.pc = "sa_range"
        /\ IF intervalJobs = EmptyMap
           THEN /\ intervalMutex' = NoCaller
                /\ SetCall(p, [c EXCEPT !.pc = "sa_stop", !.id = 0, !.handle = 0])
           ELSE /\ \E k \in DOMAIN intervalJobs :
                      SetCall(p, [c EXCEPT !.pc = "sa_send", !.id = k,
                                            !.handle = intervalJobs[k]])
                /\ UNCHANGED intervalMutex
        /\ UNCHANGED <<stopped, dbSeq, dbApis, dbSchedules, logs, jobEntries, intervalJobs, cronMutex,
                       cron, jobs, tasks, execs, started, issued, panicked>>

\* StopAllJobs, the loop body: job.done <- true, job.ticker.Stop(), delete
StopAllJobsSend(p) ==
    LET c == calls[p]
    IN  /\ c.pc = "sa_send"
        /\ Receiving(c.handle)
        /\ tasks' = TaskDone(c.handle)
        /\ jobs' = TickerStop(c.handle)
        /\ intervalJobs' = MapDel(intervalJobs, c.id)
        /\ stopped' = stopped \cup {[kind |-> "interval", id |-> c.handle]}
        /\ SetCall(p, [c EXCEPT !.pc = "sa_range"])
        /\ UNCHANGED <<dbSeq, dbApis, dbSchedules, logs, jobEntries, cronMutex, intervalMutex,
                       cron, execs, started, issued, panicked>>

\* StopAllJobs, "Stop the cron scheduler": s.cron.Stop()
StopAllJobsCronStop(p) ==
    LET c == calls[p]
    IN  /\ c.pc = "sa_stop"
        /\ cron' = [cron EXCEPT !.running = FALSE]
        /\ SetCall(p, Returned(c, "nil"))
        /\ UNCHANGED <<stopped, dbSeq, dbApis, dbSchedules, logs, jobEntries, intervalJobs, cronMutex,
                       intervalMutex, jobs, tasks, execs, started, issued, panicked>>

\* App.shutdown: the application closes and calls Shutdown, which is
\* StopAllJobs; no bound method is under way and the driver is running
Shutdown(p) ==
    /\ \A q \in Callers : calls[q].pc = "idle"
    /\ cron.running
    /\ SetCall(p, [IdleCall EXCEPT !.pc = "sa_cron", !.op = "StopAllJobs"])
    /\ UNCHANGED <<stopped, dbSeq, dbApis, dbSchedules, logs, jobEntries, intervalJobs, cronMutex,
                   intervalMutex, cron, jobs, tasks, execs, started, issued, panicked>>

\* a caller enters StartAllJobs
CallStartAllJobs(p) ==
    /\ calls[p].pc = "idle"
    /\ Overlaps(p)
    /\ issued < MaxCalls
    /\ issued' = issued + 1
    /\ SetCall(p, [IdleCall EXCEPT !.pc = "start_get", !.op = "StartAllJobs"])
    /\ UNCHANGED <<stopped, dbSeq, dbApis, dbSchedules, logs, jobEntries, intervalJobs, cronMutex,
                   intervalMutex, cron, jobs, tasks, execs, started, panicked>>

\* DBService.GetAllActiveSchedules: the rows with is_active = 1
ActiveSchedules == SelectSeq(dbSchedules, LAMBDA r : r.IsActive)

\* StartAllJobs: s.db.GetAllActiveSchedules(), which may fail, then the first
\* iteration of the loop over its result
StartAllJobsGet(p) ==
    LET c == calls[p]
        q == ActiveSchedules
    IN  /\ c.pc = "start_get"
        /\ \E dbOk \in BOOLEAN :
              SetCall(p, IF ~dbOk THEN Returned(c, "failed to get active schedules")
                         ELSE AfterScheduleJob([c EXCEPT !.queue = q], "nil"))
        /\ UNCHANGED <<stopped, dbSeq, dbApis, dbSchedules, logs, jobEntries, intervalJobs, cronMutex,
                       intervalMutex, cron, jobs, tasks, execs, started, issued, panicked>>

\* ------------------------------------------------------------- executeAPI
\* executeAPI entered with (api, schedule) by owner: its locals, and as
\* history the attempt outcomes, the waits slept and the records it logged
NewExec(owner, api, schedule) ==
    [pc |-> "prepare", owner |-> owner, api |-> api, schedule |-> schedule, attempt |-> 0,
     statusCode |-> 0, responseBody |-> "", errMsg |-> "",
     outcomes |-> <<>>, waits |-> <<>>, logged |-> <<>>]
\* prepareAPIRequest that skips headers it cannot parse
PrepareAPIRequestLenient(api) ==
    IF ~ValidMethod(api.Method) THEN [ok |-> FALSE, err |-> "net/http: invalid method"]
    ELSE IF ~UrlParses(api.URL) THEN [ok |-> FALSE, err |-> "parse: missing protocol scheme"]
    ELSE [ok |-> TRUE, err |-> ""]

\* prepareAPIRequest: http.NewRequest, then the headers JSON when not empty
PrepareAPIRequest(api) ==
    IF ~ValidMethod(api.Method) THEN [ok |-> FALSE, err |-> "net/http: invalid method"]
    ELSE IF ~UrlParses(api.URL) THEN [ok |-> FALSE, err |-> "parse: missing protocol scheme"]
    ELSE IF api.Headers # "" /\ ~JsonUnmarshalOK(api.Headers)
    THEN [ok |-> FALSE, err |-> "failed to parse headers"]
    ELSE [ok |-> TRUE, err |-> ""]

ResponseLimit == 10000
ErrorLimit == 5000

\* a truncation that already cuts a text of exactly limit units
TruncateAtLimit(s, limit) ==
    IF Len(s) >= limit THEN SubSeq(s, 1, limit) \o "... (truncated)" ELSE s

Truncate(s, limit) == IF Len(s) > limit THEN SubSeq(s, 1, limit) \o "... (truncated)" ELSE s

\* DBService.CreateExecutionLog: the row as inserted
CreateExecutionLog(rec) ==
    [rec EXCEPT !.Response = Truncate(@, ResponseLimit), !.Error = Truncate(@, ErrorLimit)]

\* logExecution: the models.ExecutionLog it builds
ExecutionLog(apiID, scheduleID, statusCode, response, errMsg) ==
    [APIID |-> apiID, ScheduleID |-> scheduleID, StatusCode |-> statusCode,
     Response |-> response, Error |-> errMsg]

\* logExecution by activation x, whose record becomes e: one call of
\* CreateExecutionLog; a failed insert is only printed
LogExecution(x, e, rec, inserts) ==
    /\ execs' = [execs EXCEPT ![x] = [e EXCEPT !.pc = "done", !.logged = Append(@, rec)]]
    /\ \E dbOk \in inserts :
          logs' = IF dbOk THEN Append(logs, CreateExecutionLog(rec)) ELSE logs
\* the for loop with attempt < retryCount as its condition
LoopHeadStrict(e) ==
    [e EXCEPT !.pc = IF e.attempt < e.schedule.RetryCount
                     THEN IF e.attempt > 0 THEN "sleep" ELSE "send"
                     ELSE "log"]

\* a for loop that waits before every iteration, the first one too
LoopHeadSleepsFirst(e) ==
    [e EXCEPT !.pc = IF e.attempt <= e.schedule.RetryCount THEN "sleep" ELSE "log"]

\* the head of the for loop, attempt <= retryCount, and the wait that opens
\* every iteration but the first
LoopHead(e) ==
    [e EXCEPT !.pc = IF e.attempt <= e.schedule.RetryCount
                     THEN IF e.attempt > 0 THEN "sleep" ELSE "send"
                     ELSE "log"]

\* a loop body that leaves statusCode alone when the last attempt gets no
\* response
AfterAttemptKeepsStatus(e, o) ==
    LET seen == [e EXCEPT !.outcomes = Append(@, o)]
        next(r) == LoopHead([r EXCEPT !.attempt = @ + 1])
    IN  IF o.err = ""
        THEN LET got == [seen EXCEPT !.responseBody = o.body, !.statusCode = o.status]
             IN  IF o.status >= 200 /\ o.status < 300
                 THEN [got EXCEPT !.pc = "log"]
                 ELSE IF e.attempt < e.schedule.RetryCount
                 THEN next([got EXCEPT !.errMsg = "API returned non-success status code: "
                                                   \o Itoa(o.status)])
                 ELSE next(got)
        ELSE IF e.attempt < e.schedule.RetryCount
             THEN next([seen EXCEPT !.errMsg = "Request failed: " \o o.err])
             ELSE next([seen EXCEPT !.errMsg = "All retry attempts failed. Last error: "
                                                \o o.err])

\* the loop body after resp, err := s.client.Do(req) gave outcome o
AfterAttempt(e, o) ==
    LET seen == [e EXCEPT !.outcomes = Append(@, o)]
        next(r) == LoopHead([r EXCEPT !.attempt = @ + 1])
    IN  IF o.err = ""
        THEN LET got == [seen EXCEPT !.responseBody = o.body, !.statusCode = o.status]
             IN  IF o.status >= 200 /\ o.status < 300
                 THEN [got EXCEPT !.pc = "log"]
                 ELSE IF e.attempt < e.schedule.RetryCount
                 THEN next([got EXCEPT !.errMsg = "API returned non-success status code: "
                                                   \o Itoa(o.status)])
                 ELSE next(got)
        ELSE IF e.attempt < e.schedule.RetryCount
             THEN next([seen EXCEPT !.errMsg = "Request failed: " \o o.err])
             ELSE next([seen EXCEPT !.errMsg = "All retry attempts failed. Last error: "
                                                \o o.err,
                                    !.statusCode = 0])
\* executeAPI whose prepare failure returns without logging
ExecPrepareSilent(x, inserts) ==
    LET e == execs[x]
        r == PrepareAPIRequest(e.api)
    IN  /\ x \in DOMAIN execs
        /\ e.pc = "prepare"
        /\ execs' = [execs EXCEPT ![x] = IF r.ok THEN LoopHead(e) ELSE [e EXCEPT !.pc = "done"]]
        /\ UNCHANGED <<stopped, dbSeq, dbApis, dbSchedules, logs, jobEntries, intervalJobs, cronMutex,
                       intervalMutex, cron, jobs, tasks, started, calls, issued, panicked>>

\* executeAPI, "Prepare request": a failure is logged with status 0 and the
\* function returns
ExecPrepare(x, inserts) ==
    LET e == execs[x]
        r == PrepareAPIRequest(e.api)
    IN  /\ x \in DOMAIN execs
        /\ e.pc = "prepare"
        /\ IF r.ok
           THEN /\ execs' = [execs EXCEPT ![x] = LoopHead(e)]
                /\ UNCHANGED logs
           ELSE LET msg == "Failed to prepare request: " \o r.err
                IN  LogExecution(x, [e EXCEPT !.errMsg = msg],
                                 ExecutionLog(e.api.ID, e.schedule.ID, 0, "", msg), inserts)
        /\ UNCHANGED <<stopped, dbSeq, dbApis, dbSchedules, jobEntries, intervalJobs, cronMutex, intervalMutex,
                       cron, jobs, tasks, started, calls, issued, panicked>>

\* executeAPI, time.Sleep(fallbackDelay) before a retry
ExecSleep(x) ==
    LET e == execs[x]
    IN  /\ x \in DOMAIN execs
        /\ e.pc = "sleep"
        /\ execs' = [execs EXCEPT ![x] = [e EXCEPT !.pc = "send",
                                                   !.waits = Append(@, e.schedule.FallbackDelay)]]
        /\ UNCHANGED <<stopped, dbSeq, dbApis, dbSchedules, logs, jobEntries, intervalJobs, cronMutex,
                       intervalMutex, cron, jobs, tasks, started, calls, issued, panicked>>

\* executeAPI, one s.client.Do(req) and the rest of the loop body
ExecSend(x, outcomes) ==
    LET e == execs[x]
    IN  /\ x \in DOMAIN execs
        /\ e.pc = "send"
        /\ \E o \in outcomes : execs' = [execs EXCEPT ![x] = AfterAttempt(e, o)]
        /\ UNCHANGED <<stopped, dbSeq, dbApis, dbSchedules, logs, jobEntries, intervalJobs, cronMutex,
                       intervalMutex, cron, jobs, tasks, started, calls, issued, panicked>>

\* executeAPI, "Log the execution results"
ExecLog(x, inserts) ==
    LET e == execs[x]
    IN  /\ x \in DOMAIN execs
        /\ e.pc = "log"
        /\ LogExecution(x, e, ExecutionLog(e.api.ID, e.schedule.ID, e.statusCode,
                                           e.responseBody, e.errMsg), inserts)
        /\ UNCHANGED <<stopped, dbSeq, dbApis, dbSchedules, jobEntries, intervalJobs, cronMutex, intervalMutex,
                       cron, jobs, tasks, started, calls, issued, panicked>>

\* the record execution e handed to logExecution is in the store
Recorded(e) ==
    /\ e.logged # <<>>
    /\ \E i \in 1..Len(logs) : logs[i] = CreateExecutionLog(e.logged[1])

\* an executeAPI whose failed insert ends the interval task that ran it
ExecReturnPropagating(x) ==
    LET e == execs[x]
    IN  /\ x \in DOMAIN execs
        /\ e.pc = "done"
        /\ execs' = MapDel(execs, x)
        /\ tasks' = IF e.owner.kind = "interval"
                    THEN [tasks EXCEPT ![e.owner.id].pc = IF Recorded(e) THEN "select"
                                                          ELSE "returned"]
                    ELSE tasks
        /\ UNCHANGED <<stopped, dbSeq, dbApis, dbSchedules, logs, jobEntries, intervalJobs, cronMutex,
                       intervalMutex, cron, jobs, started, calls, issued, panicked>>

\* executeAPI returns: a cron or manual goroutine ends, an interval task goes
\* round its for loop to the select
ExecReturn(x) ==
    LET e == execs[x]
    IN  /\ x \in DOMAIN execs
        /\ e.pc = "done"
        /\ execs' = MapDel(execs, x)
        /\ tasks' = IF e.owner.kind = "interval"
                    THEN [tasks EXCEPT ![e.owner.id].pc = "select"]
                    ELSE tasks
        /\ UNCHANGED <<stopped, dbSeq, dbApis, dbSchedules, logs, jobEntries, intervalJobs, cronMutex,
                       intervalMutex, cron, jobs, started, calls, issued, panicked>>

\* ------------------------------------------------- timers and goroutines
\* the runtime timer of job.ticker sends on ticker.C, a channel of capacity 1;
\* a tick that finds it full is dropped
Tick(j) ==
    /\ j \in DOMAIN jobs
    /\ jobs[j].ticker.active
    /\ ~jobs[j].ticker.C
    /\ jobs' = [jobs EXCEPT ![j].ticker.C = TRUE]
    /\ UNCHANGED <<stopped, dbSeq, dbApis, dbSchedules, logs, jobEntries, intervalJobs, cronMutex,
                   intervalMutex, cron, tasks, execs, started, calls, issued, panicked>>

\* runIntervalJob, case <-job.ticker.C: s.executeAPI(api, schedule), called
\* on the task's own goroutine
RunIntervalJobTick(j) ==
    /\ j \in DOMAIN tasks
    /\ tasks[j].pc = "select"
    /\ jobs[j].ticker.C
    /\ started < MaxExecs
    /\ jobs' = [jobs EXCEPT ![j].ticker.C = FALSE]
    /\ tasks' = [tasks EXCEPT ![j].pc = "exec"]
    /\ started' = started + 1
    /\ execs' = MapPut(execs, started + 1,
                       NewExec([kind |-> "interval", id |-> j], tasks[j].api, tasks[j].schedule))
    /\ UNCHANGED <<stopped, dbSeq, dbApis, dbSchedules, logs, jobEntries, intervalJobs, cronMutex,
                   intervalMutex, cron, calls, issued, panicked>>

\* the cron driver's run loop finds entry en due and starts its closure,
\* s.executeAPI(api, schedule), on a goroutine of its own
CronFire(en) ==
    /\ cron.running
    /\ en \in DOMAIN cron.entries
    /\ started < MaxExecs
    /\ started' = started + 1
    /\ execs' = MapPut(execs, started + 1,
                       NewExec([kind |-> "cron", id |-> en], cron.entries[en].api,
                               cron.entries[en].schedule))
    /\ UNCHANGED <<stopped, dbSeq, dbApis, dbSchedules, logs, jobEntries, intervalJobs, cronMutex,
                   intervalMutex, cron, jobs, tasks, calls, issued, panicked>>

\* a caller enters ExecuteAPIManually(apiID)
CallExecuteAPIManually(p, apiID) ==
    /\ calls[p].pc = "idle"
    /\ Overlaps(p)
    /\ issued < MaxCalls
    /\ issued' = issued + 1
    /\ SetCall(p, [IdleCall EXCEPT !.pc = "man_get", !.op = "ExecuteAPIManually", !.id = apiID])
    /\ UNCHANGED <<stopped, dbSeq, dbApis, dbSchedules, logs, jobEntries, intervalJobs, cronMutex,
                   intervalMutex, cron, jobs, tasks, execs, started, panicked>>
\* ExecuteAPIManually whose dummy schedule takes the API's id as its own
ExecuteAPIManuallyOwnId(p) ==
    LET c == calls[p]
        dummySchedule == [ZeroSchedule EXCEPT !.ID = c.id, !.APIID = c.id]
    IN  /\ c.pc = "man_get"
        /\ IF c.id \in DOMAIN dbApis
           THEN /\ started < MaxExecs
                /\ started' = started + 1
                /\ execs' = MapPut(execs, started + 1,
                                   NewExec([kind |-> "manual", id |-> 0], dbApis[c.id],
                                           dummySchedule))
                /\ SetCall(p, Returned(c, "nil"))
           ELSE /\ SetCall(p, Returned(c, "failed to get API"))
                /\ UNCHANGED <<started, execs>>
        /\ UNCHANGED <<stopped, dbSeq, dbApis, dbSchedules, logs, jobEntries, intervalJobs, cronMutex,
                       intervalMutex, cron, jobs, tasks, issued, panicked>>

\* ExecuteAPIManually: GetAPIByID, then go s.executeAPI(api, dummySchedule)
ExecuteAPIManually(p) ==
    LET c == calls[p]
        dummySchedule == [ZeroSchedule EXCEPT !.ID = 0, !.APIID = c.id]
    IN  /\ c.pc = "man_get"
        /\ IF c.id \in DOMAIN dbApis
           THEN /\ started < MaxExecs
                /\ started' = started + 1
                /\ execs' = MapPut(execs, started + 1,
                                   NewExec([kind |-> "manual", id |-> 0], dbApis[c.id],
                                           dummySchedule))
                /\ SetCall(p, Returned(c, "nil"))
           ELSE /\ SetCall(p, Returned(c, "failed to get API"))
                /\ UNCHANGED <<started, execs>>
        /\ UNCHANGED <<stopped, dbSeq, dbApis, dbSchedules, logs, jobEntries, intervalJobs, cronMutex,
                       intervalMutex, cron, jobs, tasks, issued, panicked>>

\* --------------------------------------------------------- App (app.go)
\* the schedules row with the given id, if any
HasRow(id) == \E i \in 1..Len(dbSchedules) : dbSchedules[i].ID = id
Row(id) == dbSchedules[CHOOSE i \in 1..Len(dbSchedules) : dbSchedules[i].ID = id]

\* DBService.UpdateSchedule: UPDATE schedules SET ... WHERE id = ?
DbUpdateSchedule(s) ==
    [i \in 1..Len(dbSchedules) |-> IF dbSchedules[i].ID = s.ID THEN s ELSE dbSchedules[i]]

\* DBService.DeleteSchedule: DELETE FROM schedules WHERE id = ?
DbDeleteSchedule(id) == SelectSeq(dbSchedules, LAMBDA r : r.ID # id)

\* what no App method changes by itself
AppFrame == UNCHANGED <<stopped, logs, jobEntries, intervalJobs, cronMutex, intervalMutex, cron,
                        jobs, tasks, execs, started, panicked>>

\* a caller enters the App method op with argument s
EnterApp(p, op, pc, s) ==
    /\ calls[p].pc = "idle"
    /\ calls[p].app.op = ""
    /\ issued < MaxCalls
    /\ issued' = issued + 1
    /\ SetCall(p, [IdleCall EXCEPT !.app = [NoApp EXCEPT !.op = op, !.pc = pc, !.schedule = s]])

\* the App method returns ret
AppReturned(c, ret) == [IdleCall EXCEPT !.app = [NoApp EXCEPT !.ret = ret]]

\* the App method calls a.scheduler.ScheduleJob(s) and goes on at next; did
\* is the history of its scheduler calls
InvokeScheduleJob(c, s, next) ==
    [IdleCall EXCEPT !.pc = "sj_check", !.op = "ScheduleJob", !.schedule = s, !.id = s.ID,
                     !.app = [c.app EXCEPT !.pc = next, !.did = Append(@, "ScheduleJob")]]

\* the App method calls a.scheduler.StopJob(id) and goes on at next
InvokeStopJob(c, id, next) ==
    [IdleCall EXCEPT !.pc = "st_cron", !.op = "StopJob", !.id = id,
                     !.app = [c.app EXCEPT !.pc = next, !.did = Append(@, "StopJob")]]

\* the App method stands at position pc, no scheduler call under way
AppAt(p, pc) == calls[p].pc = "idle" /\ calls[p].app.pc = pc

\* a caller enters CreateSchedule(s)
CallCreateSchedule(p, s) ==
    /\ EnterApp(p, "CreateSchedule", "cs_persist", s)
    /\ UNCHANGED <<dbApis, dbSchedules, dbSeq>>
    /\ AppFrame

\* CreateSchedule: a.db.CreateSchedule, then ScheduleJob when IsActive
CreateSchedulePersist(p, writes) ==
    LET c == calls[p]
        newSchedule == [c.app.schedule EXCEPT !.ID = dbSeq + 1]
    IN  /\ AppAt(p, "cs_persist")
        /\ \E dbOk \in writes :
              IF ~dbOk
              THEN /\ SetCall(p, AppReturned(c, "failed to create schedule"))
                   /\ UNCHANGED <<dbSchedules, dbSeq>>
              ELSE /\ dbSchedules' = Append(dbSchedules, newSchedule)
                   /\ dbSeq' = dbSeq + 1
                   /\ SetCall(p, IF newSchedule.IsActive
                                 THEN InvokeScheduleJob([c EXCEPT !.app.schedule = newSchedule],
                                                        newSchedule, "cs_started")
                                 ELSE AppReturned(c, "nil"))
        /\ UNCHANGED <<dbApis, issued>>
        /\ AppFrame

\* CreateSchedule that deletes the record when the job does not start
CreateScheduleStartedRollback(p) ==
    LET c == calls[p]
    IN  /\ AppAt(p, "cs_started")
        /\ SetCall(p, AppReturned(c, IF c.ret = "nil" THEN "nil"
                                     ELSE "schedule created but failed to start job"))
        /\ dbSchedules' = IF c.ret = "nil" THEN dbSchedules
                          ELSE DbDeleteSchedule(c.app.schedule.ID)
        /\ UNCHANGED <<dbApis, dbSeq, issued>>
        /\ AppFrame

\* CreateSchedule: ScheduleJob has returned
CreateScheduleStarted(p) ==
    LET c == calls[p]
    IN  /\ AppAt(p, "cs_started")
        /\ SetCall(p, AppReturned(c, IF c.ret = "nil" THEN "nil"
                                     ELSE "schedule created but failed to start job"))
        /\ UNCHANGED <<dbApis, dbSchedules, dbSeq, issued>>
        /\ AppFrame

\* a caller enters UpdateSchedule(s)
CallUpdateSchedule(p, s) ==
    /\ EnterApp(p, "UpdateSchedule", "us_get", s)
    /\ UNCHANGED <<dbApis, dbSchedules, dbSeq>>
    /\ AppFrame

\* UpdateSchedule: a.db.GetScheduleByID, isCurrentlyActive
UpdateScheduleGet(p) ==
    LET c == calls[p]
        id == c.app.schedule.ID
    IN  /\ AppAt(p, "us_get")
        /\ SetCall(p, IF HasRow(id)
                      THEN [c EXCEPT !.app.wasActive = Row(id).IsActive, !.app.pc = "us_write"]
                      ELSE AppReturned(c, "failed to get schedule by ID"))
        /\ UNCHANGED <<dbApis, dbSchedules, dbSeq, issued>>
        /\ AppFrame
\* UpdateSchedule that takes the active flag it has just written for the old one
UpdateScheduleWriteThenRead(p, writes) ==
    LET c == calls[p]
        s == c.app.schedule
        was == s.IsActive
    IN  /\ AppAt(p, "us_write")
        /\ \E dbOk \in writes :
              IF ~dbOk
              THEN /\ SetCall(p, AppReturned(c, "failed to update schedule"))
                   /\ UNCHANGED dbSchedules
              ELSE /\ dbSchedules' = DbUpdateSchedule(s)
                   /\ SetCall(p, IF was /\ ~s.IsActive THEN InvokeStopJob(c, s.ID, "us_stopped")
                                 ELSE IF ~was /\ s.IsActive
                                 THEN InvokeScheduleJob(c, s, "us_started")
                                 ELSE IF was /\ s.IsActive
                                 THEN InvokeStopJob(c, s.ID, "us_restart")
                                 ELSE AppReturned(c, "nil"))
        /\ UNCHANGED <<dbApis, dbSeq, issued>>
        /\ AppFrame

\* UpdateSchedule: a.db.UpdateSchedule(schedule), then the branch on the old
\* and the new active flag
UpdateScheduleWrite(p, writes) ==
    LET c == calls[p]
        s == c.app.schedule
        was == c.app.wasActive
    IN  /\ AppAt(p, "us_write")
        /\ \E dbOk \in writes :
              IF ~dbOk
              THEN /\ SetCall(p, AppReturned(c, "failed to update schedule"))
                   /\ UNCHANGED dbSchedules
              ELSE /\ dbSchedules' = DbUpdateSchedule(s)
                   /\ SetCall(p, IF was /\ ~s.IsActive THEN InvokeStopJob(c, s.ID, "us_stopped")
                                 ELSE IF ~was /\ s.IsActive
                                 THEN InvokeScheduleJob(c, s, "us_started")
                                 ELSE IF was /\ s.IsActive
                                 THEN InvokeStopJob(c, s.ID, "us_restart")
                                 ELSE AppReturned(c, "nil"))
        /\ UNCHANGED <<dbApis, dbSeq, issued>>
        /\ AppFrame

\* UpdateSchedule, active to inactive: StopJob has returned
UpdateScheduleStopped(p) ==
    LET c == calls[p]
    IN  /\ AppAt(p, "us_stopped")
        /\ SetCall(p, AppReturned(c, IF c.ret = "nil" THEN "nil"
                                     ELSE "schedule updated but failed to stop job"))
        /\ UNCHANGED <<dbApis, dbSchedules, dbSeq, issued>>
        /\ AppFrame

\* UpdateSchedule, active to active: StopJob has returned (an error is only
\* logged), ScheduleJob(schedule) follows
UpdateScheduleRestart(p) ==
    LET c == calls[p]
    IN  /\ AppAt(p, "us_restart")
        /\ SetCall(p, InvokeScheduleJob(c, c.app.schedule, "us_started"))
        /\ UNCHANGED <<dbApis, dbSchedules, dbSeq, issued>>
        /\ AppFrame

\* UpdateSchedule: ScheduleJob has returned
UpdateScheduleStarted(p) ==
    LET c == calls[p]
    IN  /\ AppAt(p, "us_started")
        /\ SetCall(p, AppReturned(c, IF c.ret = "nil" THEN "nil"
                                     ELSE IF c.app.wasActive
                                     THEN "schedule updated but failed to restart job"
                                     ELSE "schedule updated but failed to start job"))
        /\ UNCHANGED <<dbApis, dbSchedules, dbSeq, issued>>
        /\ AppFrame

\* a caller enters DeleteSchedule(id): "Stop the job first"
CallDeleteSchedule(p, id) ==
    /\ calls[p].pc = "idle"
    /\ calls[p].app.op = ""
    /\ issued < MaxCalls
    /\ issued' = issued + 1
    /\ SetCall(p, InvokeStopJob([IdleCall EXCEPT !.app.op = "DeleteSchedule",
                                                 !.app.schedule.ID = id], id, "ds_delete"))
    /\ UNCHANGED <<dbApis, dbSchedules, dbSeq>>
    /\ AppFrame

\* DeleteSchedule that gives up when StopJob reports an error
DeleteScheduleDeleteStrict(p, writes) ==
    LET c == calls[p]
    IN  /\ AppAt(p, "ds_delete")
        /\ \E dbOk \in writes :
              IF c.ret # "nil"
              THEN /\ SetCall(p, AppReturned(c, c.ret))
                   /\ UNCHANGED dbSchedules
              ELSE IF ~dbOk
              THEN /\ SetCall(p, AppReturned(c, "failed to delete schedule"))
                   /\ UNCHANGED dbSchedules
              ELSE /\ dbSchedules' = DbDeleteSchedule(c.app.schedule.ID)
                   /\ SetCall(p, AppReturned(c, "nil"))
        /\ UNCHANGED <<dbApis, dbSeq, issued>>
        /\ AppFrame

\* DeleteSchedule: StopJob has returned (an error is only logged),
\* a.db.DeleteSchedule(id)
DeleteScheduleDelete(p, writes) ==
    LET c == calls[p]
    IN  /\ AppAt(p, "ds_delete")
        /\ \E dbOk \in writes :
              IF ~dbOk
              THEN /\ SetCall(p, AppReturned(c, "failed to delete schedule"))
                   /\ UNCHANGED dbSchedules
              ELSE /\ dbSchedules' = DbDeleteSchedule(c.app.schedule.ID)
                   /\ SetCall(p, AppReturned(c, "nil"))
        /\ UNCHANGED <<dbApis, dbSeq, issued>>
        /\ AppFrame

\* a caller enters ToggleSchedule(id, isActive)
CallToggleSchedule(p, id, isActive) ==
    /\ EnterApp(p, "ToggleSchedule", "tg_get",
                [ZeroSchedule EXCEPT !.ID = id, !.IsActive = isActive])
    /\ UNCHANGED <<dbApis, dbSchedules, dbSeq>>
    /\ AppFrame

\* ToggleSchedule: a.db.GetScheduleByID, schedule.IsActive = isActive,
\* a.UpdateSchedule(schedule)
ToggleScheduleGet(p) ==
    LET c == calls[p]
        id == c.app.schedule.ID
    IN  /\ AppAt(p, "tg_get")
        /\ SetCall(p, IF HasRow(id)
                      THEN [c EXCEPT !.app.schedule = [Row(id) EXCEPT
                                                          !.IsActive = c.app.schedule.IsActive],
                                     !.app.pc = "us_get"]
                      ELSE AppReturned(c, "failed to get schedule"))
        /\ UNCHANGED <<dbApis, dbSchedules, dbSeq, issued>>
        /\ AppFrame

\* a caller enters CancelSchedule(id)
CallCancelSchedule(p, id) ==
    /\ EnterApp(p, "CancelSchedule", "cn_get", [ZeroSchedule EXCEPT !.ID = id])
    /\ UNCHANGED <<dbApis, dbSchedules, dbSeq>>
    /\ AppFrame

\* CancelSchedule: a.db.GetScheduleByID, then StopJob(id)
CancelScheduleGet(p) ==
    LET c == calls[p]
        id == c.app.schedule.ID
    IN  /\ AppAt(p, "cn_get")
        /\ SetCall(p, IF HasRow(id)
                      THEN InvokeStopJob([c EXCEPT !.app.schedule = Row(id)], id, "cn_write")
                      ELSE AppReturned(c, "failed to get schedule"))
        /\ UNCHANGED <<dbApis, dbSchedules, dbSeq, issued>>
        /\ AppFrame

\* CancelSchedule: StopJob has returned (an error is only logged),
\* schedule.IsActive = false, a.db.UpdateSchedule(schedule)
CancelScheduleWrite(p, writes) ==
    LET c == calls[p]
    IN  /\ AppAt(p, "cn_write")
        /\ \E dbOk \in writes :
              IF ~dbOk
              THEN /\ SetCall(p, AppReturned(c, "failed to update schedule"))
                   /\ UNCHANGED dbSchedules
              ELSE /\ dbSchedules' = DbUpdateSchedule([c.app.schedule EXCEPT !.IsActive = FALSE])
                   /\ SetCall(p, AppReturned(c, "nil"))
        /\ UNCHANGED <<dbApis, dbSeq, issued>>
        /\ AppFrame

\* UpdateAPI(api): DBService.UpdateAPI, UPDATE apis SET ... WHERE id = ?
UpdateAPI(p, api) ==
    /\ calls[p].pc = "idle"
    /\ calls[p].app.op = ""
    /\ issued < MaxCalls
    /\ issued' = issued + 1
    /\ dbApis' = IF api.ID \in DOMAIN dbApis THEN [dbApis EXCEPT ![api.ID] = api] ELSE dbApis
    /\ SetCall(p, AppReturned(calls[p], IF api.ID \in DOMAIN dbApis THEN "nil"
                                        ELSE "failed to get updated API"))
    /\ UNCHANGED <<dbSchedules, dbSeq>>
    /\ AppFrame

\* ------------------------------------------------------------ specification
\* what a caller may ask for
ReqScheduleJob(s) == [op |-> "ScheduleJob", schedule |-> s, id |-> s.ID]
ReqStopJob(id) == [op |-> "StopJob", schedule |-> ZeroSchedule, id |-> id]
ReqStopAllJobs == [op |-> "StopAllJobs", schedule |-> ZeroSchedule, id |-> 0]
ReqStartAllJobs == [op |-> "StartAllJobs", schedule |-> ZeroSchedule, id |-> 0]
ReqExecuteAPIManually(a) == [op |-> "ExecuteAPIManually", schedule |-> ZeroSchedule, id |-> a]

\* the steps of the program when caller p issues the calls requests[p], the
\* endpoints answer with `outcomes` and the store's inserts into
\* execution_logs succeed as in `inserts`
Step(requests, outcomes, inserts) ==
    \/ \E p \in DOMAIN requests : \E r \in requests[p] :
              \/ r.op = "ScheduleJob" /\ CallScheduleJob(p, r.schedule)
              \/ r.op = "StopJob" /\ CallStopJob(p, r.id)
              \/ r.op = "StopAllJobs" /\ CallStopAllJobs(p)
              \/ r.op = "StartAllJobs" /\ CallStartAllJobs(p)
              \/ r.op = "ExecuteAPIManually" /\ CallExecuteAPIManually(p, r.id)
    \/ \E p \in DOMAIN requests :
           \/ ScheduleJobCheck(p)
           \/ ScheduleJobGetAPI(p)
           \/ ScheduleJobAddFunc(p)
           \/ ScheduleJobNewTicker(p)
           \/ ScheduleJobUnsupported(p)
           \/ ScheduleJobInsert(p)
           \/ ScheduleJobGo(p)
           \/ StopJobCron(p)
           \/ StopJobLock(p)
           \/ StopJobSend(p)
           \/ StopAllJobsCron(p)
           \/ StopAllJobsLock(p)
           \/ StopAllJobsRange(p)
           \/ StopAllJobsSend(p)
           \/ StopAllJobsCronStop(p)
           \/ StartAllJobsGet(p)
           \/ ExecuteAPIManually(p)
    \/ \E j \in JobIds : Tick(j) \/ RunIntervalJobTick(j)
    \/ \E en \in EntryIds : CronFire(en)
    \/ \E x \in ExecIds :
           \/ ExecPrepare(x, inserts)
           \/ ExecSleep(x)
           \/ ExecSend(x, outcomes)
           \/ ExecLog(x, inserts)
           \/ ExecReturn(x)

\* two callers over the registry: the first issues any call, the second
\* registers and unregisters schedule 1 meanwhile
RegistryRequests ==
    [p \in Callers |->
        {ReqScheduleJob(s) : s \in IF p = "c1" THEN RegistryInputs
                                   ELSE {t \in RegistryInputs :
                                           /\ t.Type \in {"cron", "interval"}
                                           /\ CronParses(t.Expression) \/ Atoi(t.Expression).ok}}
        \cup {ReqStopJob(id) : id \in IF p = "c1" THEN SchedIds ELSE {1}}
        \cup (IF p = "c1" THEN {ReqStopAllJobs, ReqStartAllJobs}
                               \cup {ReqExecuteAPIManually(a) : a \in ApiIds}
                          ELSE {})]

Next == Step(RegistryRequests, RegistryOutcomes, {TRUE})

Spec == Init(RegistryStores) /\ [][Next]_vars

\* the executor: one caller registers schedule 1, as an interval schedule
\* with any retry count or as a cron schedule with one retry,
\* and runs APIs by hand; every attempt outcome, failing inserts; the
\* triggers come one execution at a time
ExecInputs == {s \in ScheduleInputs : /\ s.ID = 1 /\ s.APIID = 1
                                       /\ \/ s.Type = "interval" /\ Atoi(s.Expression).ok
                                          \/ s.Type = "cron" /\ CronParses(s.Expression)
                                                             /\ s.RetryCount = 1}

ExecStores == {st \in Stores : st.schedules = <<>>}

NextExec ==
    \/ \E s \in ExecInputs : CallScheduleJob("c1", s)
    \/ ScheduleJobCheck("c1")
    \/ ScheduleJobGetAPI("c1")
    \/ ScheduleJobAddFunc("c1")
    \/ ScheduleJobNewTicker("c1")
    \/ ScheduleJobInsert("c1")
    \/ ScheduleJobGo("c1")
    \/ \E a \in ApiIds : CallExecuteAPIManually("c1", a)
    \/ execs = EmptyMap /\ ExecuteAPIManually("c1")
    \/ \E j \in JobIds : Tick(j)
    \/ \E j \in JobIds : execs = EmptyMap /\ RunIntervalJobTick(j)
    \/ \E en \in EntryIds : execs = EmptyMap /\ CronFire(en)
    \/ \E x \in ExecIds :
           \/ ExecPrepare(x, BOOLEAN)
           \/ ExecSleep(x)
           \/ ExecSend(x, Outcomes)
           \/ ExecLog(x, BOOLEAN)
           \/ ExecReturn(x)

SpecExec == Init(ExecStores) /\ [][NextExec]_vars

\* the App over an empty schedules table, one method call at a time: the
\* schedules the user creates and the edits the user makes to schedule 1
Draft(id, type, expr, retry, active) == [Schedule(id, 1, type, expr, retry) EXCEPT !.IsActive = active]

CreateInputs ==
    {Draft(0, "interval", ExprFive, 1, TRUE), Draft(0, "cron", ExprStars, 1, TRUE),
     Draft(0, "interval", ExprWord, 0, TRUE), Draft(0, "interval", ExprFive, 1, FALSE),
     Draft(0, "interval", ExprZero, 0, TRUE)}

UpdateInputs ==
    {Draft(1, "interval", ExprFive, 0, a) : a \in BOOLEAN}
    \cup {Draft(1, "cron", ExprStars, 0, TRUE), Draft(1, "interval", ExprWord, 0, TRUE),
          Draft(2, "interval", ExprFive, 0, TRUE)}

ApiEdits == {Api(1, "GET", "http://x/ok", "{bad")}

AppStores == {st \in Stores : st.api.Headers = "{}" /\ st.schedules = <<>>}

NextApp ==
    \/ \E s \in CreateInputs : CallCreateSchedule("c1", s)
    \/ CreateSchedulePersist("c1", BOOLEAN)
    \/ CreateScheduleStarted("c1")
    \/ \E s \in UpdateInputs : CallUpdateSchedule("c1", s)
    \/ UpdateScheduleGet("c1")
    \/ UpdateScheduleWrite("c1", BOOLEAN)
    \/ UpdateScheduleStopped("c1")
    \/ UpdateScheduleRestart("c1")
    \/ UpdateScheduleStarted("c1")
    \/ \E id \in SchedIds : CallDeleteSchedule("c1", id)
    \/ DeleteScheduleDelete("c1", BOOLEAN)
    \/ \E id \in SchedIds : \E a \in BOOLEAN : CallToggleSchedule("c1", id, a)
    \/ ToggleScheduleGet("c1")
    \/ \E id \in SchedIds : CallCancelSchedule("c1", id)
    \/ CancelScheduleGet("c1")
    \/ CancelScheduleWrite("c1", BOOLEAN)
    \/ \E a \in ApiEdits : UpdateAPI("c1", a)
    \/ ScheduleJobCheck("c1")
    \/ ScheduleJobGetAPI("c1")
    \/ ScheduleJobAddFunc("c1")
    \/ ScheduleJobNewTicker("c1")
    \/ ScheduleJobInsert("c1")
    \/ ScheduleJobGo("c1")
    \/ StopJobCron("c1")
    \/ StopJobLock("c1")
    \/ StopJobSend("c1")
    \/ \E j \in JobIds : Tick(j) \/ RunIntervalJobTick(j)
    \/ \E en \in EntryIds : CronFire(en)
    \/ \E x \in ExecIds :
           \/ ExecPrepare(x, {TRUE})
           \/ ExecSleep(x)
           \/ ExecSend(x, RegistryOutcomes)
           \/ ExecLog(x, {TRUE})
           \/ ExecReturn(x)

SpecApp == Init(AppStores) /\ [][NextApp]_vars

\* the scheduler under one caller, one call at a time, over every schedules
\* table: registrations, StopJob, StopAllJobs and StartAllJobs
SeqInputs ==
    {Schedule(id, 1, t, IF t = "cron" THEN ExprStars ELSE ExprFive, 1) :
        id \in SchedIds, t \in {"cron", "interval"}}

SeqStores == {st \in Stores : st.api.Headers = "{}"}

NextSeq ==
    \/ \E s \in SeqInputs : CallScheduleJob("c1", s)
    \/ \E id \in SchedIds : CallStopJob("c1", id)
    \/ CallStopAllJobs("c1")
    \/ CallStartAllJobs("c1")
    \/ ScheduleJobCheck("c1")
    \/ ScheduleJobGetAPI("c1")
    \/ ScheduleJobAddFunc("c1")
    \/ ScheduleJobNewTicker("c1")
    \/ ScheduleJobInsert("c1")
    \/ ScheduleJobGo("c1")
    \/ StopJobCron("c1")
    \/ StopJobLock("c1")
    \/ StopJobSend("c1")
    \/ StopAllJobsCron("c1")
    \/ StopAllJobsLock("c1")
    \/ StopAllJobsRange("c1")
    \/ StopAllJobsSend("c1")
    \/ StopAllJobsCronStop("c1")
    \/ StartAllJobsGet("c1")
    \/ \E j \in JobIds : Tick(j) \/ RunIntervalJobTick(j)
    \/ \E en \in EntryIds : CronFire(en)
    \/ \E x \in ExecIds :
           \/ ExecPrepare(x, {TRUE})
           \/ ExecSleep(x)
           \/ ExecSend(x, RegistryOutcomes)
           \/ ExecLog(x, {TRUE})
           \/ ExecReturn(x)

SpecSeq == Init(SeqStores) /\ [][NextSeq]_vars

\* two callers register schedule 1, the second while the first is at it;
\* then the application closes
ShutdownInputs ==
    {Schedule(1, 1, t, IF t = "cron" THEN ExprStars ELSE ExprFive, 1) : t \in {"cron", "interval"}}

NextShutdown ==
    \/ \E s \in ShutdownInputs : CallScheduleJob("c1", s)
    \/ \E s \in ShutdownInputs : calls["c1"].op = "ScheduleJob" /\ CallScheduleJob("c2", s)
    \/ Shutdown("c1")
    \/ \E p \in Callers :
           \/ ScheduleJobCheck(p)
           \/ ScheduleJobGetAPI(p)
           \/ ScheduleJobAddFunc(p)
           \/ ScheduleJobNewTicker(p)
           \/ ScheduleJobInsert(p)
           \/ ScheduleJobGo(p)
    \/ StopAllJobsCron("c1")
    \/ StopAllJobsLock("c1")
    \/ StopAllJobsRange("c1")
    \/ StopAllJobsSend("c1")
    \/ StopAllJobsCronStop("c1")
    \/ \E j \in JobIds : Tick(j) \/ RunIntervalJobTick(j)
    \/ \E en \in EntryIds : CronFire(en)
    \/ \E x \in ExecIds :
           \/ ExecPrepare(x, {TRUE})
           \/ ExecSleep(x)
           \/ ExecSend(x, RegistryOutcomes)
           \/ ExecLog(x, {TRUE})
           \/ ExecReturn(x)

SpecShutdown == Init(AppStores) /\ [][NextShutdown]_vars

\* one caller registers schedule 1, stops it or stops everything, while
\* the triggers fire and the executions run against a working store; an
\* attempt gets a 2xx response or no response
FlightInputs ==
    {Schedule(1, 1, t, IF t = "cron" THEN ExprStars ELSE ExprFive, 1) : t \in {"cron", "interval"}}

FlightOutcomes == {o \in Outcomes : Is2xx(o) \/ o.err # ""}

NextFlight ==
    \/ \E s \in FlightInputs : CallScheduleJob("c1", s)
    \/ CallStopJob("c1", 1)
    \/ CallStopAllJobs("c1")
    \/ ScheduleJobCheck("c1")
    \/ ScheduleJobGetAPI("c1")
    \/ ScheduleJobAddFunc("c1")
    \/ ScheduleJobNewTicker("c1")
    \/ ScheduleJobInsert("c1")
    \/ ScheduleJobGo("c1")
    \/ StopJobCron("c1")
    \/ StopJobLock("c1")
    \/ StopJobSend("c1")
    \/ StopAllJobsCron("c1")
    \/ StopAllJobsLock("c1")
    \/ StopAllJobsRange("c1")
    \/ StopAllJobsSend("c1")
    \/ StopAllJobsCronStop("c1")
    \/ \E j \in JobIds : Tick(j) \/ RunIntervalJobTick(j)
    \/ \E en \in EntryIds : CronFire(en)
    \/ \E x \in ExecIds :
           \/ ExecPrepare(x, {TRUE})
           \/ ExecSleep(x)
           \/ ExecSend(x, FlightOutcomes)
           \/ ExecLog(x, {TRUE})
           \/ ExecReturn(x)

SpecFlight == Init(AppStores) /\ [][NextFlight]_vars

\* the goroutine of an execution is scheduled again and again, and each of
\* its steps ends: the client gives up after its Timeout, time.Sleep lasts
\* fallbackDelay, the insert returns
ExecutionRuns(x) ==
    WF_vars(\/ ExecPrepare(x, {TRUE})
            \/ ExecSleep(x)
            \/ ExecSend(x, FlightOutcomes)
            \/ ExecLog(x, {TRUE}))

FairFlight == SpecFlight /\ \A x \in ExecIds : ExecutionRuns(x)

\* one caller registers schedule 1, stops it and stops everything, the other
\* stops it meanwhile, while its triggers fire and its executions run
LiveInputs ==
    {Schedule(1, 1, t, IF t = "cron" THEN ExprStars ELSE ExprFive, 1) : t \in {"cron", "interval"}}

\* the steps of caller p inside a scheduler call
CallerStep(p) ==
    \/ ScheduleJobCheck(p)
    \/ ScheduleJobGetAPI(p)
    \/ ScheduleJobAddFunc(p)
    \/ ScheduleJobNewTicker(p)
    \/ ScheduleJobInsert(p)
    \/ ScheduleJobGo(p)
    \/ StopJobCron(p)
    \/ StopJobLock(p)
    \/ StopJobSend(p)
    \/ StopAllJobsCron(p)
    \/ StopAllJobsLock(p)
    \/ StopAllJobsRange(p)
    \/ StopAllJobsSend(p)
    \/ StopAllJobsCronStop(p)

\* the steps of execution x up to its return
ExecutionStep(x) ==
    \/ ExecPrepare(x, {TRUE})
    \/ ExecSleep(x)
    \/ ExecSend(x, RegistryOutcomes)
    \/ ExecLog(x, {TRUE})
    \/ ExecReturn(x)

NextLive ==
    \/ \E s \in LiveInputs : CallScheduleJob("c1", s)
    \/ \E p \in Callers : CallStopJob(p, 1)
    \/ CallStopAllJobs("c1")
    \/ \E p \in Callers : CallerStep(p)
    \/ \E j \in JobIds : Tick(j) \/ RunIntervalJobTick(j)
    \/ \E en \in EntryIds : CronFire(en)
    \/ \E x \in ExecIds : ExecutionStep(x)

SpecLive == Init(AppStores) /\ [][NextLive]_vars

\* every execution terminates (each of its steps ends and its goroutine is
\* scheduled), and a caller whose next step stays possible takes it: its
\* goroutine is scheduled, a free mutex is acquired, and the select of
\* runIntervalJob takes the value a sender is waiting with
FairLive ==
    /\ SpecLive
    /\ \A x \in ExecIds : WF_vars(ExecutionStep(x))
    /\ \A p \in Callers : WF_vars(CallerStep(p))

\* a text of n units
RECURSIVE Fill(_)
Fill(n) ==
    IF n = 0 THEN ""
    ELSE LET h == Fill(n \div 2)
         IN  IF n % 2 = 0 THEN h \o h ELSE h \o h \o "x"

\* what executeAPI puts before the transport error of its last attempt
LastErrorPrefix == "All retry attempts failed. Last error: "

\* responses of exactly ResponseLimit units and of one more, a short one,
\* and transport errors whose message after the last attempt has exactly
\* ErrorLimit units or one more
LongOutcomes ==
    {[err |-> "", status |-> 200, body |-> Fill(n)] : n \in {ResponseLimit, ResponseLimit + 1}}
    \cup {[err |-> "", status |-> 500, body |-> "oops"]}
    \cup {[err |-> Fill(n - Len(LastErrorPrefix)), status |-> 0, body |-> ""] :
             n \in {ErrorLimit, ErrorLimit + 1}}

LongInputs == {Schedule(1, 1, "interval", ExprFive, 1)}

\* one interval schedule with one retry, registered and fired, whose
\* attempts get the long outcomes; the store accepts the inserts
NextTruncate ==
    \/ \E s \in LongInputs : CallScheduleJob("c1", s)
    \/ ScheduleJobCheck("c1")
    \/ ScheduleJobGetAPI("c1")
    \/ ScheduleJobNewTicker("c1")
    \/ ScheduleJobInsert("c1")
    \/ ScheduleJobGo("c1")
    \/ \E j \in JobIds : Tick(j) \/ RunIntervalJobTick(j)
    \/ \E x \in ExecIds :
           \/ ExecPrepare(x, {TRUE})
           \/ ExecSleep(x)
           \/ ExecSend(x, LongOutcomes)
           \/ ExecLog(x, {TRUE})
           \/ ExecReturn(x)

SpecTruncate == Init(AppStores) /\ [][NextTruncate]_vars

\* the store of a process that finds one inactive schedule, of either kind:
\* StartAllJobs has registered nothing for it
RaceStores ==
    {[api |-> Api(1, "GET", "http://x/ok", "{}"),
      schedules |-> <<Draft(1, t, IF t = "cron" THEN ExprStars ELSE ExprFive, 0, FALSE)>>] :
        t \in {"cron", "interval"}}

\* the edits of schedule 1 the front end sends
RaceInputs ==
    {Draft(1, t, IF t = "cron" THEN ExprStars ELSE ExprFive, 0, a) :
        t \in {"cron", "interval"}, a \in BOOLEAN}

\* the steps of an UpdateSchedule or ToggleSchedule call of caller p, those
\* of the scheduler calls it makes included; the store accepts the writes
LifecycleStep(p) ==
    \/ ToggleScheduleGet(p)
    \/ UpdateScheduleGet(p)
    \/ UpdateScheduleWrite(p, {TRUE})
    \/ UpdateScheduleStopped(p)
    \/ UpdateScheduleRestart(p)
    \/ UpdateScheduleStarted(p)
    \/ ScheduleJobCheck(p)
    \/ ScheduleJobGetAPI(p)
    \/ ScheduleJobAddFunc(p)
    \/ ScheduleJobNewTicker(p)
    \/ ScheduleJobInsert(p)
    \/ ScheduleJobGo(p)
    \/ StopJobCron(p)
    \/ StopJobLock(p)
    \/ StopJobSend(p)

\* two front-end callers (each bound method runs on a goroutine of its own)
\* toggle and update schedule 1, their calls overlapping or not
NextRace ==
    \/ \E p \in Callers : \E a \in BOOLEAN : CallToggleSchedule(p, 1, a)
    \/ \E p \in Callers : \E s \in RaceInputs : CallUpdateSchedule(p, s)
    \/ \E p \in Callers : LifecycleStep(p)

SpecRace == Init(RaceStores) /\ [][NextRace]_vars

\* ------------------------------------------------------------------ claims
\* the live jobs of schedule id: interval jobs whose ticker runs, and cron
\* entries the driver holds
LiveIntervalJobs(id) == {j \in DOMAIN jobs : jobs[j].scheduleID = id /\ jobs[j].ticker.active}
LiveCronJobs(id) == {en \in DOMAIN cron.entries : cron.entries[en].schedule.ID = id}

\* C1: the check that a job exists and the insertion of the new job are one
\* atomic step, so concurrent ScheduleJob calls for one schedule id never both
\* create a job: no schedule id ever has two live jobs (stated per kind of
\* job, which the claim implies: two interval jobs with running tickers, or
\* two cron entries, for one id)
C1_OneLiveJobPerId ==
    \A id \in SchedIds :
        /\ Cardinality(LiveIntervalJobs(id)) <= 1
        /\ Cardinality(LiveCronJobs(id)) <= 1

\* ScheduleJob's lookup finds schedule s: its id is in the mapping of its kind
Registered(s) ==
    IF s.Type = "cron" THEN s.ID \in DOMAIN jobEntries ELSE s.ID \in DOMAIN intervalJobs

C3_NoExecutionAfterStop ==
    [][\A x \in DOMAIN execs' \ DOMAIN execs : execs'[x].owner \notin stopped]_vars

\* C3 witness: an interval job has been stopped with a tick still buffered
\* in its ticker's channel, its task has returned, and executions may start
C3_Witness ==
    \E h \in stopped :
        /\ h.kind = "interval"
        /\ jobs[h.id].ticker.C
        /\ ~jobs[h.id].ticker.active
        /\ tasks[h.id].pc = "returned"
        /\ started < MaxExecs

\* caller p is at job.done <- true and the task is inside executeAPI
SendBlocked(p) ==
    /\ calls[p].pc \in {"st_send", "sa_send"}
    /\ calls[p].handle \in DOMAIN tasks
    /\ tasks[calls[p].handle].pc = "exec"

\* caller p needs intervalMutex, held by a caller blocked on an execution
LockBlocked(p) ==
    /\ \/ calls[p].pc \in {"st_lock", "sa_lock"}
       \/ calls[p].pc \in {"sj_check", "sj_insert"} /\ calls[p].schedule.Type # "cron"
    /\ intervalMutex \in Callers
    /\ SendBlocked(intervalMutex)

\* C4: executions run outside the scheduler's locks, so no register or
\* unregister call ever waits for an in-flight execution (with its retries
\* and waits) to finish
C4_NeverBlockedByExecution ==
    \A p \in Callers : ~SendBlocked(p) /\ ~LockBlocked(p)

\* C5: nothing prevents overlap: a tick that arrives while the previous
\* execution of the same schedule is running starts a new execution beside
\* it, it is not held back until that execution ends
C5_TickNotHeldBack ==
    \A j \in DOMAIN tasks : jobs[j].ticker.C => tasks[j].pc # "exec"

\* the request cannot be built from the API: invalid method, unparsable URL
\* or headers that are not a JSON object of strings
Malformed(api) ==
    \/ ~ValidMethod(api.Method)
    \/ ~UrlParses(api.URL)
    \/ api.Headers # "" /\ ~JsonUnmarshalOK(api.Headers)

\* C6: every executeAPI makes exactly one CreateExecutionLog call on every
\* path: one once it is over, none before
C6_ExactlyOneLog ==
    \A x \in DOMAIN execs : Len(execs[x].logged) = IF execs[x].pc = "done" THEN 1 ELSE 0

\* C6 witness: an execution that ended on a transport failure after a retry
\* has logged
C6_Witness ==
    \E x \in DOMAIN execs :
        LET e == execs[x]
        IN  /\ e.pc = "done"
            /\ Len(e.outcomes) >= 2
            /\ e.outcomes[Len(e.outcomes)].err # ""
            /\ Len(e.logged) = 1

\* C7: an execution makes at most retryCount + 1 attempts, none after the
\* first 2xx response, and exactly retryCount + 1 when no attempt gives 2xx
C7_AttemptBound ==
    \A x \in DOMAIN execs :
        LET e == execs[x]
            n == Len(e.outcomes)
            r == e.schedule.RetryCount
        IN  /\ n <= r + 1
            /\ \A i \in 1..(n - 1) : ~Is2xx(e.outcomes[i])
            /\ (/\ e.pc \in {"log", "done"}
                /\ ~Malformed(e.api)
                /\ \A i \in 1..n : ~Is2xx(e.outcomes[i]))
               => n = r + 1

\* C7 witness: an execution with the largest retry count is over after
\* retryCount + 1 attempts without a 2xx
C7_Witness ==
    \E x \in DOMAIN execs :
        LET e == execs[x]
        IN  /\ e.pc = "done"
            /\ e.schedule.RetryCount = MaxRetry
            /\ Len(e.outcomes) = MaxRetry + 1
            /\ \A i \in 1..Len(e.outcomes) : ~Is2xx(e.outcomes[i])

\* C8: when the attempts end with a 2xx response, the one log record has
\* that response's status code and an empty error
C8_SuccessLogsNoError ==
    \A x \in DOMAIN execs :
        LET e == execs[x]
            n == Len(e.outcomes)
        IN  (e.pc = "done" /\ n > 0 /\ Is2xx(e.outcomes[n]))
            => /\ Len(e.logged) = 1
               /\ e.logged[1].StatusCode = e.outcomes[n].status
               /\ e.logged[1].Error = ""

\* C9: for every retryCount >= 0, when all retryCount + 1 attempts give a
\* response that is not 2xx, the one log record has the last response's status
\* code and a non-empty error
C9_ExhaustedLogsError ==
    \A x \in DOMAIN execs :
        LET e == execs[x]
            n == Len(e.outcomes)
        IN  (/\ e.pc = "done"
             /\ n = e.schedule.RetryCount + 1
             /\ \A i \in 1..n : e.outcomes[i].err = "" /\ ~Is2xx(e.outcomes[i]))
            => /\ Len(e.logged) = 1
               /\ e.logged[1].StatusCode = e.outcomes[n].status
               /\ e.logged[1].Error # ""

\* C10: when the request cannot be built, the execution makes no attempt and
\* no wait, whatever retryCount, and logs one record with status 0, an empty
\* response and a non-empty error
C10_BuildFailure ==
    \A x \in DOMAIN execs :
        LET e == execs[x]
        IN  Malformed(e.api)
            => /\ e.pc \in {"prepare", "done"}
               /\ e.outcomes = <<>>
               /\ e.waits = <<>>
               /\ e.pc = "done" => /\ Len(e.logged) = 1
                                   /\ e.logged[1].StatusCode = 0
                                   /\ e.logged[1].Response = ""
                                   /\ e.logged[1].Error # ""

\* C10 witness: an execution of a schedule with retries, whose API has
\* headers that do not parse, is over
C10_Witness ==
    \E x \in DOMAIN execs :
        LET e == execs[x]
        IN  /\ Malformed(e.api)
            /\ e.pc = "done"
            /\ e.schedule.RetryCount > 0
            /\ e.api.Headers # ""

\* registration of every input shape, one call at a time: well-formed
\* schedules, and interval expressions that are a word, "0" or negative
ValidateInputs == {s \in ScheduleInputs : s.RetryCount = 0}

NextValidate ==
    \/ \E s \in ValidateInputs : CallScheduleJob("c1", s)
    \/ ScheduleJobCheck("c1")
    \/ ScheduleJobGetAPI("c1")
    \/ ScheduleJobAddFunc("c1")
    \/ ScheduleJobNewTicker("c1")
    \/ ScheduleJobUnsupported("c1")
    \/ ScheduleJobInsert("c1")
    \/ ScheduleJobGo("c1")
    \/ \E j \in JobIds : Tick(j)

SpecValidate == Init(RegistryStores) /\ [][NextValidate]_vars

\* the expression is a decimal integer greater than zero
PositiveInterval(expr) == Atoi(expr).ok /\ Atoi(expr).val > 0

\* C11: ScheduleJob for an interval schedule whose expression is not a
\* positive decimal integer returns an error to its caller and creates no
\* job, and the process never crashes
C11_IntervalValidation ==
    [][/\ ~panicked'
       /\ \A p \in Callers :
             (/\ calls[p].pc = "sj_create"
              /\ calls[p].schedule.Type = "interval"
              /\ ~PositiveInterval(calls[p].schedule.Expression)
              /\ calls'[p] # calls[p])
             => /\ calls'[p].pc = "idle"
                /\ calls'[p].ret \notin {"", "nil"}
                /\ UNCHANGED <<jobs, intervalJobs, tasks>>]_vars

C13_ApiReadFresh ==
    [][\A x \in DOMAIN execs' \ DOMAIN execs :
          /\ execs'[x].schedule.APIID \in DOMAIN dbApis
          /\ execs'[x].api = dbApis[execs'[x].schedule.APIID]]_vars

\* C14: a schedule's job is torn down before its record is deactivated or
\* deleted: in no state is an id registered, in either mapping, while its
\* persisted record is inactive or absent
C14_TornDownBeforeRecord ==
    \A id \in DOMAIN jobEntries \cup DOMAIN intervalJobs : HasRow(id) /\ Row(id).IsActive

\* the one live job of schedule s.ID is the one registered for it, and it
\* runs with the values of s
RunsWith(s) ==
    IF s.Type = "cron"
    THEN /\ s.ID \in DOMAIN jobEntries
         /\ LiveCronJobs(s.ID) = {jobEntries[s.ID]}
         /\ cron.entries[jobEntries[s.ID]].schedule = s
         /\ LiveIntervalJobs(s.ID) = {}
    ELSE /\ s.ID \in DOMAIN intervalJobs
         /\ LiveIntervalJobs(s.ID) = {intervalJobs[s.ID]}
         /\ intervalJobs[s.ID] \in DOMAIN tasks
         /\ tasks[intervalJobs[s.ID]].schedule = s
         /\ LiveCronJobs(s.ID) = {}

\* the scheduler calls UpdateSchedule owes to the old and the new active flag
CallsFor(was, new) ==
    IF was /\ ~new THEN <<"StopJob">>
    ELSE IF ~was /\ new THEN <<"ScheduleJob">>
    ELSE IF was /\ new THEN <<"StopJob", "ScheduleJob">>
    ELSE <<>>

\* C15: UpdateSchedule reads the persisted active flag before it writes, and
\* when it returns after the write it has made exactly the scheduler calls of
\* the old/new pair: ScheduleJob only, StopJob only, StopJob then ScheduleJob,
\* or none; after an active to active update that returns nil the one live
\* job of the schedule runs with the new kind, expression and retry count
C15_UpdateSchedulePairs ==
    [][\A p \in Callers :
          LET a == calls[p].app
          IN  /\ (a.pc = "us_write" /\ dbSchedules' # dbSchedules)
                 => a.wasActive = Row(a.schedule.ID).IsActive
              /\ (/\ a.pc \in {"us_write", "us_stopped", "us_started"}
                  /\ calls'[p].app.op = ""
                  /\ calls'[p].app.ret # "failed to update schedule")
                 => /\ a.did = CallsFor(a.wasActive, a.schedule.IsActive)
                    /\ (a.wasActive /\ a.schedule.IsActive /\ calls'[p].app.ret = "nil")
                       => RunsWith(a.schedule)]_vars

\* C15 witness: an active to active update that turns the interval schedule
\* into a cron schedule has stopped the interval job and registered the cron
\* entry, and is about to return nil
C15_Witness ==
    \E p \in Callers :
        LET a == calls[p].app
        IN  /\ AppAt(p, "us_started")
            /\ a.op = "UpdateSchedule"
            /\ a.wasActive /\ a.schedule.IsActive
            /\ a.schedule.Type = "cron"
            /\ calls[p].ret = "nil"
            /\ a.did = <<"StopJob", "ScheduleJob">>
            /\ \E h \in stopped : h.kind = "interval" /\ jobs[h.id].scheduleID = a.schedule.ID

\* C16: ExecuteAPIManually(apiId) returns the error at once, starting no
\* execution and writing no log, when the store has no such API; otherwise it
\* returns nil with one new execution started and not one attempt made yet,
\* and that execution logs a single record, under schedule id 0
C16_ManualExecution ==
    [][/\ \A p \in Callers :
             LET c == calls[p]
             IN  (c.pc = "man_get" /\ calls'[p] # c)
                 => /\ calls'[p].pc = "idle"
                    /\ logs' = logs
                    /\ IF c.id \in DOMAIN dbApis
                       THEN /\ calls'[p].ret = "nil"
                            /\ \E x \in DOMAIN execs' \ DOMAIN execs :
                                  /\ DOMAIN execs' = DOMAIN execs \cup {x}
                                  /\ execs'[x].owner.kind = "manual"
                                  /\ execs'[x].api = dbApis[c.id]
                                  /\ execs'[x].schedule.ID = 0
                                  /\ execs'[x].pc = "prepare"
                                  /\ execs'[x].outcomes = <<>>
                       ELSE /\ calls'[p].ret \notin {"", "nil"}
                            /\ UNCHANGED <<execs, started>>
       /\ \A x \in DOMAIN execs \cap DOMAIN execs' :
             (execs[x].owner.kind = "manual" /\ execs'[x].logged # execs[x].logged)
             => /\ Len(execs'[x].logged) = 1
                /\ execs'[x].logged[1].ScheduleID = 0
                /\ execs'[x].logged[1].APIID = execs[x].api.ID]_vars

\* C16 witness: the caller has its nil and the manual execution, after one
\* attempt, has logged its record under schedule id 0
C16_Witness ==
    \E x \in DOMAIN execs :
        /\ execs[x].owner.kind = "manual"
        /\ execs[x].pc = "done"
        /\ Len(execs[x].outcomes) = 1
        /\ execs[x].logged[1].ScheduleID = 0
        /\ calls["c1"].pc = "idle"
        /\ calls["c1"].ret = "nil"

\* every cron entry and every interval job created so far
AllJobs ==
    {[kind |-> "cron", id |-> en] : en \in 1..cron.nextID}
    \cup {[kind |-> "interval", id |-> j] : j \in DOMAIN jobs}

\* C17: when StopAllJobs returns both mappings are empty, every interval
\* task has returned and its ticker is stopped, the cron driver holds no
\* entry and is stopped, and every job registered before is a stopped one;
\* a stopped job starts no execution
C17_StopAllJobs ==
    [][/\ \A p \in Callers :
             (calls[p].pc = "sa_stop" /\ calls'[p].pc = "idle")
             => /\ jobEntries' = EmptyMap
                /\ intervalJobs' = EmptyMap
                /\ cron'.entries = EmptyMap
                /\ ~cron'.running
                /\ \A j \in DOMAIN jobs' :
                      /\ ~jobs'[j].ticker.active
                      /\ j \in DOMAIN tasks'
                      /\ tasks'[j].pc = "returned"
                /\ AllJobs' \subseteq stopped'
       /\ \A x \in DOMAIN execs' \ DOMAIN execs : execs'[x].owner \notin stopped]_vars

\* ScheduleJob can register s: its API has a row and its expression is good
Registrable(s) ==
    /\ s.APIID \in DOMAIN dbApis
    /\ \/ s.Type = "cron" /\ CronParses(s.Expression)
       \/ s.Type = "interval" /\ PositiveInterval(s.Expression)

\* C18: StartAllJobs returns an error only when GetAllActiveSchedules fails;
\* otherwise no schedule of the list ends the call (a schedule that cannot
\* be registered, by its expression or its missing API, is passed over), the
\* call returns nil and every active schedule that can be registered is
\* registered, whatever schedules before it in the list failed
C18_StartAllJobs ==
    [][\A p \in Callers :
          LET c == calls[p]
          IN  c.op = "StartAllJobs"
              => /\ ~panicked'
                 /\ calls'[p].pc = "idle"
                    => IF calls'[p].ret = "nil"
                       THEN \A i \in 1..Len(ActiveSchedules) :
                               LET s == ActiveSchedules[i]
                               IN  Registrable(s)
                                   => IF s.Type = "cron"
                                      THEN s.ID \in DOMAIN jobEntries'
                                      ELSE s.ID \in DOMAIN intervalJobs'
                       ELSE /\ c.pc = "start_get"
                            /\ UNCHANGED <<jobEntries, intervalJobs, cron, jobs, tasks>>]_vars

\* execution e has made all its attempts: up to the first 2xx response, or
\* retryCount + 1 of them, or none when its request cannot be built
AttemptsOver(e) ==
    LET n == Len(e.outcomes)
    IN  IF Malformed(e.api) THEN n = 0
        ELSE /\ n >= 1
             /\ Is2xx(e.outcomes[n]) \/ n = e.schedule.RetryCount + 1

\* execution x is at its end with its one record written to the store
LoggedAtItsEnd(x) ==
    /\ x \in DOMAIN execs
    /\ execs[x].pc = "done"
    /\ AttemptsOver(execs[x])
    /\ Len(execs[x].logged) = 1
    /\ \E i \in 1..Len(logs) : logs[i] = CreateExecutionLog(execs[x].logged[1])

\* C19: StopJob and StopAllJobs never cancel an execution in flight: no step
\* of theirs changes an execution, an execution only goes away from its end,
\* and every execution once started makes its remaining attempts and comes
\* to its end with its single log record written
C19_InFlightRunsToItsLog ==
    /\ [][\A x \in DOMAIN execs :
             /\ x \notin DOMAIN execs' => execs[x].pc = "done"
             /\ (\E p \in Callers : calls'[p] # calls[p])
                => (x \in DOMAIN execs' /\ execs'[x] = execs[x])]_vars
    /\ \A x \in ExecIds : (x \in DOMAIN execs) ~> LoggedAtItsEnd(x)

\* C19 witness: the cron entry of schedule 1 has been removed by StopJob
\* while its execution had made one attempt; the execution is at its end
\* after its second attempt, its record written
C19_Witness ==
    \E x \in DOMAIN execs :
        /\ execs[x].owner \in stopped
        /\ execs[x].owner.kind = "cron"
        /\ calls["c1"].pc = "idle"
        /\ issued = 2
        /\ Len(execs[x].outcomes) = 2
        /\ LoggedAtItsEnd(x)

\* C20: CreateSchedule writes the record before any scheduler call. When the
\* write fails nothing else happens. An inactive record is returned with nil
\* and without a ScheduleJob call. An active record is handed to ScheduleJob,
\* and when ScheduleJob returns an error CreateSchedule returns an error,
\* the record stays in the store and no job exists for its id
C20_CreateSchedule ==
    [][\A p \in Callers :
          LET c == calls[p]
              d == calls'[p]
              s == c.app.schedule
              row == [s EXCEPT !.ID = dbSeq + 1]
          IN  /\ (c.app.op = "CreateSchedule" /\ c.app.pc = "cs_persist" /\ d # c)
                 => /\ c.app.did = <<>>
                    /\ \/ /\ d.app.ret = "failed to create schedule"
                          /\ d.pc = "idle"
                          /\ UNCHANGED <<dbSchedules, jobEntries, intervalJobs, cron, jobs, tasks>>
                       \/ /\ dbSchedules' = Append(dbSchedules, row)
                          /\ IF s.IsActive
                             THEN /\ d.op = "ScheduleJob"
                                  /\ d.schedule = row
                                  /\ d.app.did = <<"ScheduleJob">>
                             ELSE /\ d.pc = "idle"
                                  /\ d.app.op = ""
                                  /\ d.app.ret = "nil"
                                  /\ UNCHANGED <<jobEntries, intervalJobs, cron, jobs, tasks>>
              /\ (c.app.op = "CreateSchedule" /\ c.app.pc = "cs_started" /\ c.pc = "idle" /\ d # c)
                 => /\ d.pc = "idle"
                    /\ d.app.op = ""
                    /\ IF c.ret = "nil"
                       THEN d.app.ret = "nil"
                       ELSE /\ d.app.ret \notin {"", "nil"}
                            /\ \E i \in 1..Len(dbSchedules') : dbSchedules'[i] = s
                            /\ s.ID \notin DOMAIN jobEntries' \cup DOMAIN intervalJobs'
                            /\ \A j \in DOMAIN jobs' : jobs'[j].scheduleID # s.ID
                            /\ \A en \in DOMAIN cron'.entries :
                                  cron'.entries[en].schedule.ID # s.ID]_vars

\* C20 witness: CreateSchedule of an active interval schedule with the
\* expression "abc" has returned its error; the record is in the store,
\* active, and has no job
C20_Witness ==
    /\ calls["c1"].pc = "idle"
    /\ calls["c1"].app.ret = "schedule created but failed to start job"
    /\ HasRow(dbSeq)
    /\ Row(dbSeq).IsActive
    /\ ~Atoi(Row(dbSeq).Expression).ok
    /\ dbSeq \notin DOMAIN jobEntries \cup DOMAIN intervalJobs
    /\ LiveIntervalJobs(dbSeq) = {}

\* C21: DeleteSchedule(id) returns only from the store deletion, which it
\* reaches whatever StopJob(id) returned, and its result is the deletion's:
\* nil with the row removed, or the store's error with the table as it was;
\* after nil there is no row for id, no mapping entry, no ticker and no
\* cron entry of id
C21_DeleteSchedule ==
    [][\A p \in Callers :
          LET c == calls[p]
              d == calls'[p]
              id == c.app.schedule.ID
          IN  (c.app.op = "DeleteSchedule" /\ d.app.op = "")
              => /\ c.pc = "idle"
                 /\ c.app.pc = "ds_delete"
                 /\ c.app.did = <<"StopJob">>
                 /\ c.ret \in {"nil", "job not found"}
                 /\ \/ /\ d.app.ret = "nil"
                       /\ dbSchedules' = DbDeleteSchedule(id)
                       /\ \A i \in 1..Len(dbSchedules') : dbSchedules'[i].ID # id
                       /\ id \notin DOMAIN jobEntries' \cup DOMAIN intervalJobs'
                       /\ \A j \in DOMAIN jobs' :
                             jobs'[j].scheduleID = id => ~jobs'[j].ticker.active
                       /\ \A en \in DOMAIN cron'.entries :
                             cron'.entries[en].schedule.ID # id
                    \/ /\ d.app.ret = "failed to delete schedule"
                       /\ UNCHANGED dbSchedules]_vars

\* C21 witness: the record created inactive, which never had a job, has
\* been deleted: StopJob found nothing and DeleteSchedule returned nil
C21_Witness ==
    /\ issued = 2
    /\ dbSeq = 1
    /\ ~HasRow(1)
    /\ calls["c1"].pc = "idle"
    /\ calls["c1"].app.op = ""
    /\ calls["c1"].app.ret = "nil"
    /\ cron.nextID = 0
    /\ jobs = EmptyMap

\* C22: a schedule id is never in both mappings at once, the cron one and
\* the interval one
C22_OneMappingPerId == DOMAIN jobEntries \cap DOMAIN intervalJobs = {}

\* C23: the record of an execution that made an attempt carries the status
\* of its last attempt, 0 when that attempt got no response; and when the
\* last attempt got no response the record's error is not empty, whatever
\* the attempts before it received
C23_LastAttemptStatus ==
    \A x \in DOMAIN execs :
        LET e == execs[x]
            n == Len(e.outcomes)
        IN  (e.pc = "done" /\ n >= 1)
            => /\ Len(e.logged) = 1
               /\ e.logged[1].StatusCode = IF e.outcomes[n].err = "" THEN e.outcomes[n].status
                                           ELSE 0
               /\ e.outcomes[n].err # "" => e.logged[1].Error # ""

\* C23 witness: an execution got a 500 response, then no response on its
\* last attempt, and has logged status 0 with an error
C23_Witness ==
    \E x \in DOMAIN execs :
        LET e == execs[x]
        IN  /\ e.pc = "done"
            /\ Len(e.outcomes) = 2
            /\ e.outcomes[1].err = ""
            /\ e.outcomes[1].status = 500
            /\ e.outcomes[2].err # ""
            /\ e.logged[1].StatusCode = 0
            /\ e.logged[1].Error # ""

\* C24: an execution has waited once, for fallbackDelay seconds, before each
\* attempt but the first: when it is about to send attempt k it has waited k
\* times, and when it waits, logs or is over it has one wait less than
\* attempts, none after its last attempt or after a 2xx response
C24_WaitsBetweenAttempts ==
    \A x \in DOMAIN execs :
        LET e == execs[x]
            n == Len(e.outcomes)
            w == Len(e.waits)
        IN  /\ \A i \in 1..w : e.waits[i] = e.schedule.FallbackDelay
            /\ e.pc = "send" => w = n /\ n = e.attempt
            /\ e.pc = "sleep" => n >= 1 /\ w = n - 1
            /\ e.pc \in {"log", "done"} => w = IF n = 0 THEN 0 ELSE n - 1

\* C24 witness: an execution is over after three attempts, the last one a
\* 2xx response, and has waited twice
C24_Witness ==
    \E x \in DOMAIN execs :
        LET e == execs[x]
        IN  /\ e.pc = "done"
            /\ Len(e.outcomes) = MaxRetry + 1
            /\ Is2xx(e.outcomes[MaxRetry + 1])
            /\ Len(e.waits) = MaxRetry

\* the four errors ScheduleJob returns
ScheduleJobErrors ==
    {"failed to get API", "failed to add cron job", "invalid interval",
     "unsupported schedule type"}

\* C25: a ScheduleJob that returns an error has performed no side effect:
\* its steps up to the lookup of the API, and the step that returns the
\* error, leave both mappings, the cron entries, the tickers and the tasks as
\* they are, and the call has created no handle
C25_ErrorWithoutSideEffect ==
    [][\A p \in Callers :
          LET c == calls[p]
              d == calls'[p]
          IN  (c.op = "ScheduleJob" /\ d # c /\ ~panicked')
              => /\ c.pc \in {"sj_check", "sj_getapi"}
                    => UNCHANGED <<jobEntries, intervalJobs, cron, jobs, tasks>>
                 /\ (d.pc = "idle" /\ d.ret # "nil")
                    => /\ d.ret \in ScheduleJobErrors
                       /\ c.pc \in {"sj_getapi", "sj_create"}
                       /\ c.handle = 0
                       /\ UNCHANGED <<jobEntries, intervalJobs, cron, jobs, tasks>>]_vars

\* C25 witness: with a job registered, a second ScheduleJob has returned the
\* error of a cron expression that does not parse
C25_Witness ==
    /\ issued = 2
    /\ calls["c1"].pc = "idle"
    /\ calls["c1"].ret = "failed to add cron job"
    /\ DOMAIN jobEntries \cup DOMAIN intervalJobs # {}

\* the positions at which a caller holds intervalMutex
HoldsIntervalMutex == {"st_send", "sa_range", "sa_send"}

\* C26: no call holds both mutexes: cronMutex is free whenever a caller
\* waits or holds intervalMutex, intervalMutex is held only by a StopJob or
\* StopAllJobs inside its interval part, and a step taken there leaves the
\* cron mapping alone; and every ScheduleJob, StopJob and StopAllJobs call
\* under way returns
C26_NoDeadlock ==
    /\ [](/\ cronMutex = NoCaller
          /\ intervalMutex # NoCaller
             => /\ intervalMutex \in Callers
                /\ calls[intervalMutex].pc \in HoldsIntervalMutex)
    /\ [][\A p \in Callers :
             (intervalMutex = p /\ calls'[p] # calls[p]) => UNCHANGED <<jobEntries, cronMutex>>]_vars
    /\ \A p \in Callers : (calls[p].pc # "idle") ~> (calls[p].pc = "idle")

\* C26 witness: a StopJob holding intervalMutex waits with its send on done
\* for the task, which is inside an execution
C26_Witness ==
    \E p \in Callers :
        /\ SendBlocked(p)
        /\ calls[p].op = "StopJob"
        /\ intervalMutex = p

\* C27: logExecution makes its one insert and swallows its failure: the
\* step that logs leaves the execution at its end with one record handed
\* over, the store with that record or, when the insert failed, as it was,
\* and the registry, the tickers, the tasks and the cron entries untouched;
\* a finished execution does nothing more than return (the process staying
\* up), and its return puts
\* the interval task back in its select with its ticker as it was and leaves
\* the cron entry installed, so that the next tick starts an execution
C27_LogFailureSwallowed ==
    [][\A x \in DOMAIN execs :
          LET e == execs[x]
          IN  /\ (e.pc # "done" /\ x \in DOMAIN execs' /\ execs'[x].pc = "done")
                 => /\ Len(execs'[x].logged) = 1
                    /\ \/ logs' = logs
                       \/ logs' = Append(logs, CreateExecutionLog(execs'[x].logged[1]))
                    /\ UNCHANGED <<jobEntries, intervalJobs, cron, jobs, tasks, panicked>>
              /\ (e.pc = "done" /\ ~panicked')
                 => \/ x \in DOMAIN execs' /\ execs'[x] = e
                    \/ /\ x \notin DOMAIN execs'
                       /\ UNCHANGED <<logs, jobEntries, intervalJobs, cron, jobs, panicked>>
                       /\ e.owner.kind = "interval"
                          => /\ tasks'[e.owner.id].pc = "select"
                             /\ jobs'[e.owner.id].ticker.active
                       /\ e.owner.kind = "cron"
                          => /\ e.owner.id \in DOMAIN cron'.entries
                             /\ cron'.running]_vars

\* C27 witness: the one execution of an interval job has returned after
\* its insert failed: the store has no record, the task is in its select,
\* the job is registered and the next tick is in the ticker's channel
C27_Witness ==
    /\ started = 1
    /\ execs = EmptyMap
    /\ logs = <<>>
    /\ \E id \in DOMAIN intervalJobs :
          LET j == intervalJobs[id]
          IN  /\ j \in DOMAIN tasks
              /\ tasks[j].pc = "select"
              /\ jobs[j].ticker.active
              /\ jobs[j].ticker.C

\* the marker CreateExecutionLog puts after a text it has cut
TruncationMarker == "... (truncated)"

\* stored is text as the store keeps it under limit: verbatim up to limit
\* units, else its first limit units and the marker
StoredAs(stored, text, limit) ==
    IF Len(text) <= limit
    THEN stored = text
    ELSE /\ Len(stored) = limit + Len(TruncationMarker)
         /\ SubSeq(stored, 1, limit) = SubSeq(text, 1, limit)
         /\ SubSeq(stored, limit + 1, Len(stored)) = TruncationMarker

\* the body of the last response execution e received, "" for none
LastBody(e) ==
    LET got == SelectSeq(e.outcomes, LAMBDA o : o.err = "")
    IN  IF got = <<>> THEN "" ELSE got[Len(got)].body

\* C28: the record an execution hands to the store carries the response body
\* and the error text uncut, and the row the store keeps for it has the
\* response cut to 10,000 units plus the marker when it is longer, verbatim
\* otherwise, and the error likewise with 5,000
C28_TruncationAtTheStore ==
    \A x \in DOMAIN execs :
        LET e == execs[x]
        IN  e.pc = "done"
            => /\ Len(e.logged) = 1
               /\ e.logged[1].Response = LastBody(e)
               /\ e.logged[1].Error = e.errMsg
               /\ logs # <<>>
               /\ StoredAs(logs[Len(logs)].Response, e.logged[1].Response, 10000)
               /\ StoredAs(logs[Len(logs)].Error, e.logged[1].Error, 5000)

\* C28 witness: an execution has received a response of 10,001 units and a
\* row with 10,000 units and the marker is in the store
C28_Witness ==
    \E x \in DOMAIN execs :
        /\ execs[x].pc = "done"
        /\ Len(execs[x].logged[1].Response) = 10001
        /\ Len(logs[Len(logs)].Response) = 10000 + Len(TruncationMarker)

\* no management call is under way
Quiescent == \A p \in Callers : calls[p].pc = "idle"

\* interval job j is the one the mapping holds for its schedule id
Referenced(j) ==
    /\ jobs[j].scheduleID \in DOMAIN intervalJobs
    /\ intervalJobs[jobs[j].scheduleID] = j

\* cron entry en is the one the mapping holds for its schedule id
EntryReferenced(en) ==
    /\ cron.entries[en].schedule.ID \in DOMAIN jobEntries
    /\ jobEntries[cron.entries[en].schedule.ID] = en

\* C29: once the management calls, overlapping ones for one id included,
\* have returned, every interval job whose ticker runs or whose task has not
\* returned, and every entry the cron driver holds, is the one its schedule
\* id's mapping entry refers to, so that StopJob and StopAllJobs reach it
C29_NoLeakedJob ==
    (Quiescent /\ ~panicked)
    => /\ \A j \in DOMAIN jobs :
             (jobs[j].ticker.active \/ (j \in DOMAIN tasks /\ tasks[j].pc # "returned"))
             => Referenced(j)
       /\ \A en \in DOMAIN cron.entries : EntryReferenced(en)

\* a job is registered for schedule id, in either mapping
JobRegistered(id) == id \in DOMAIN jobEntries \cup DOMAIN intervalJobs

\* every UpdateSchedule and ToggleSchedule call issued has returned, none of
\* them with an error
AllReturnedNil ==
    \A p \in Callers :
        /\ calls[p].pc = "idle"
        /\ calls[p].app.op = ""
        /\ calls[p].app.ret \in {"", "nil"}

\* C30: once the UpdateSchedule and ToggleSchedule calls issued for a
\* schedule id, overlapping ones included, have all returned without error,
\* a job is registered for the id exactly when its record is active
C30_RecordMatchesRegistry ==
    AllReturnedNil
    => \A id \in SchedIds : HasRow(id) => (JobRegistered(id) <=> Row(id).IsActive)

====
